---- MODULE Spec2Model ----
(***************************************************************************)
(* A model of the AI interview question generator: the response            *)
(* normalizer of src/src/utils/gemini.ts and the form state machine of     *)
(* src/src/App.tsx.  Text is a sequence of one-character strings, so that  *)
(* trimming, regular-expression matching and JSON parsing are computed     *)
(* character by character as the code computes them.                       *)
(***************************************************************************)
EXTENDS Integers, Sequences, FiniteSets, TLC

(***************************************************************************)
(* Characters and the String.prototype / RegExp primitives the code uses.  *)
(***************************************************************************)
\* the backtick, which a TLA+ string cannot hold
Backtick == "BACKTICK"

UpperChars == <<"A", "B", "C", "D", "E", "F", "G", "H", "I", "J", "K", "L", "M", "N", "O", "P", "Q", "R", "S", "T", "U", "V", "W", "X", "Y", "Z">>

LowerChars == <<"a", "b", "c", "d", "e", "f", "g", "h", "i", "j", "k", "l", "m", "n", "o", "p", "q", "r", "s", "t", "u", "v", "w", "x", "y", "z">>

DigitChars == {"0", "1", "2", "3", "4", "5", "6", "7", "8", "9"}

UpperSet == {UpperChars[i] : i \in 1..Len(UpperChars)}

LowerSet == {LowerChars[i] : i \in 1..Len(LowerChars)}

LowerMap == [c \in UpperSet |-> LowerChars[CHOOSE i \in 1..Len(UpperChars) : UpperChars[i] = c]]

\* the regular-expression class \s, and the characters trim() strips
IsSpace(c) == c \in {" ", "\n", "\t", "\r"}

\* the class \d
IsDigit(c) == c \in DigitChars

\* the class [a-zA-Z]
IsLetter(c) == c \in UpperSet \/ c \in LowerSet

toLowerChar(c) == IF c \in UpperSet THEN LowerMap[c] ELSE c

toLowerCase(s) == [i \in 1..Len(s) |-> toLowerChar(s[i])]

\* a left-to-right scan: the least index in lo..hi that satisfies P, hi + 1
\* if there is none (lo itself when the range is empty)
FirstFrom(lo, hi, P(_)) ==
    IF \E k \in lo..hi : P(k)
    THEN CHOOSE k \in lo..hi : P(k) /\ \A m \in lo..(k - 1) : ~P(m)
    ELSE IF lo > hi THEN lo ELSE hi + 1

\* a right-to-left scan: the greatest index in lo..hi that satisfies P,
\* lo - 1 if there is none (hi itself when the range is empty)
LastFrom(lo, hi, P(_)) ==
    IF \E k \in lo..hi : P(k)
    THEN CHOOSE k \in lo..hi : P(k) /\ \A m \in (k + 1)..hi : ~P(m)
    ELSE IF lo > hi THEN hi ELSE lo - 1

\* the first index >= i of s that holds no whitespace (Len(s)+1 if none)
SkipSpaces(s, i) == FirstFrom(i, Len(s), LAMBDA k : ~IsSpace(s[k]))

\* the last index <= i of s that holds no whitespace (0 if none)
SkipSpacesBack(s, i) == LastFrom(1, i, LAMBDA k : ~IsSpace(s[k]))

\* the first index >= i of s that holds no digit
SkipDigits(s, i) == FirstFrom(i, Len(s), LAMBDA k : ~IsDigit(s[k]))

\* String.prototype.slice(from - 1, to) with 1-based inclusive bounds
Slice(s, from, to) == IF from > to THEN <<>> ELSE SubSeq(s, from, to)

\* String.prototype.trim
trim(s) == Slice(s, SkipSpaces(s, 1), SkipSpacesBack(s, Len(s)))

\* p occurs in s at index i
StartsWithAt(s, p, i) ==
    /\ i >= 1
    /\ i + Len(p) - 1 <= Len(s)
    /\ \A k \in 1..Len(p) : s[i + k - 1] = p[k]

\* String.prototype.indexOf(p, i - 1) + 1: the first index >= i where p occurs, 0 if none
IndexOfFrom(s, p, i) ==
    IF \E k \in i..(Len(s) - Len(p) + 1) : StartsWithAt(s, p, k)
    THEN FirstFrom(i, Len(s) - Len(p) + 1, LAMBDA k : StartsWithAt(s, p, k))
    ELSE 0

\* String.prototype.lastIndexOf(p) + 1, searching backwards from index i
LastIndexOfFrom(s, p, i) ==
    IF \E k \in 1..i : StartsWithAt(s, p, k)
    THEN LastFrom(1, i, LAMBDA k : StartsWithAt(s, p, k))
    ELSE 0

\* String.prototype.includes
Includes(s, p) == IndexOfFrom(s, p, 1) # 0

\* String.prototype.endsWith for a single character
EndsWithChar(s, c) == Len(s) > 0 /\ s[Len(s)] = c

\* Array.prototype.slice(0, n)
Take(seq, n) == IF Len(seq) <= n THEN seq ELSE SubSeq(seq, 1, n)

\* Array.prototype.filter
RECURSIVE SelectFrom(_, _, _)
SelectFrom(seq, Keep(_), i) ==
    IF i > Len(seq) THEN <<>>
    ELSE IF Keep(seq[i]) THEN <<seq[i]>> \o SelectFrom(seq, Keep, i + 1)
    ELSE SelectFrom(seq, Keep, i + 1)

\* Array.prototype.join
RECURSIVE Join(_, _, _)
Join(seq, sep, i) ==
    IF i > Len(seq) THEN <<>>
    ELSE IF i = Len(seq) THEN seq[i]
    ELSE seq[i] \o sep \o Join(seq, sep, i + 1)

\* value.replace(/\s+/g, ' ')
\* the indices of s, in order
Indices(s) == [k \in 1..Len(s) |-> k]

\* the characters of s at the indices kept, a whitespace character kept being
\* the one space its run is replaced with
SpacedAt(s, kept) ==
    [k \in 1..Len(kept) |-> IF IsSpace(s[kept[k]]) THEN " " ELSE s[kept[k]]]

\* from index i: every character but the whitespace that follows whitespace
CollapseWhitespace(s, i) ==
    SpacedAt(s, SelectSeq(Indices(s),
                          LAMBDA k : k >= i /\ (~IsSpace(s[k]) \/ k = i \/ ~IsSpace(s[k - 1]))))

\* value.replace(open [\s\S]*? close, with) for every match, left to right:
\* a match runs from an occurrence of open to the nearest later occurrence of close
RECURSIVE ReplaceDelimited(_, _, _, _, _)
ReplaceDelimited(s, open, close, with, i) ==
    LET a == IndexOfFrom(s, open, i)
        b == IF a = 0 THEN 0 ELSE IndexOfFrom(s, close, a + Len(open))
    IN  IF b = 0 THEN Slice(s, i, Len(s))
        ELSE Slice(s, i, a - 1) \o with
             \o ReplaceDelimited(s, open, close, with, b + Len(close))

Fence == <<Backtick, Backtick, Backtick>>

cleanText(value) ==
    trim(CollapseWhitespace(ReplaceDelimited(value, Fence, Fence, <<>>, 1), 1))

\* the decimal numeral of n
RECURSIVE DecimalDigits(_)
DecimalDigits(n) ==
    IF n < 10 THEN <<<<"0", "1", "2", "3", "4", "5", "6", "7", "8", "9">>[n + 1]>>
    ELSE DecimalDigits(n \div 10) \o <<<<"0", "1", "2", "3", "4", "5", "6", "7", "8", "9">>[(n % 10) + 1]>>

\* the first index >= i of s whose character satisfies Sep (Len(s)+1 if none)
NextSep(s, Sep(_), i) == FirstFrom(i, Len(s), LAMBDA k : Sep(s[k]))

\* the first index >= i of s whose character does not satisfy Sep
SkipSep(s, Sep(_), i) == FirstFrom(i, Len(s), LAMBDA k : ~Sep(s[k]))

\* String.prototype.split(/[class]+/) for the character class Sep, from index i
RECURSIVE SplitRuns(_, _, _)
SplitRuns(s, Sep(_), i) ==
    LET j == NextSep(s, Sep, i)
    IN  IF j > Len(s) THEN <<Slice(s, i, Len(s))>>
        ELSE <<Slice(s, i, j - 1)>> \o SplitRuns(s, Sep, SkipSep(s, Sep, j))

\* Array.prototype.find: the index of the first element satisfying P, 0 if none
RECURSIVE FindIndex(_, _, _)
FindIndex(seq, P(_), i) ==
    IF i > Len(seq) THEN 0
    ELSE IF P(seq[i]) THEN i
    ELSE FindIndex(seq, P, i + 1)

IsNonEmpty(s) == Len(s) > 0

IsLineBreak(c) == c \in {"\r", "\n"}

\* the labels of metadataRegex
MetadataLabels ==
    { <<"t", "y", "p", "e">>, <<"s", "u", "g", "g", "e", "s", "t", "e", "d", " ", "a", "n", "s", "w", "e", "r">>, <<"k", "e", "y", " ", "t", "i", "p", "s">>, <<"k", "e", "y", "w", "o", "r", "d", "s">>, <<"a", "n", "s", "w", "e", "r", " ", "s", "t", "r", "u", "c", "t", "u", "r", "e">>,
      <<"r", "e", "f", "e", "r", "e", "n", "c", "e", " ", "u", "r", "l">>, <<"k", "e", "y", "t", "i", "p", "s">>, <<"b", "e", "h", "a", "v", "i", "o", "r", "a", "l", "s", "t", "r", "u", "c", "t", "u", "r", "e">>, <<"c", "o", "d", "e", " ", "e", "x", "a", "m", "p", "l", "e">> }

\* metadataRegex matches at index i of the lowercased text: a label, \s*, ':'
MetadataAt(lower, i) ==
    \E p \in MetadataLabels :
        /\ StartsWithAt(lower, p, i)
        /\ LET j == SkipSpaces(lower, i + Len(p))
           IN  j <= Len(lower) /\ lower[j] = ":"

\* metadataRegex.exec(text).index + 1, 0 when there is no match
MetadataIndex(lower, i) ==
    IF \E k \in i..Len(lower) : MetadataAt(lower, k)
    THEN FirstFrom(i, Len(lower), LAMBDA k : MetadataAt(lower, k))
    ELSE 0

\* the words of questionKeywords
QuestionWords ==
    { <<"w", "h", "o">>, <<"w", "h", "a", "t">>, <<"w", "h", "e", "n">>, <<"w", "h", "e", "r", "e">>, <<"w", "h", "y">>, <<"h", "o", "w">>, <<"d", "e", "s", "c", "r", "i", "b", "e">>, <<"e", "x", "p", "l", "a", "i", "n">>, <<"t", "e", "l", "l">>,
      <<"g", "i", "v", "e">>, <<"w", "a", "l", "k">>, <<"i", "m", "a", "g", "i", "n", "e">>, <<"d", "i", "s", "c", "u", "s", "s">>, <<"s", "h", "a", "r", "e">>, <<"t", "a", "l", "k">>, <<"o", "u", "t", "l", "i", "n", "e">>, <<"c", "l", "a", "r", "i", "f", "y">>,
      <<"f", "o", "c", "u", "s">> }

\* questionKeywords.test(line)
HasQuestionKeyword(line) ==
    LET lower == toLowerCase(line)
    IN  \E w \in QuestionWords : Includes(lower, w)

isCodeLike(line) ==
    LET first == SkipSpaces(line, 1)
    IN  \/ \E i \in 1..Len(line) : line[i] \in {"{", "}", Backtick, ";"}
        \/ first <= Len(line) /\ line[first] \in {".", "#"}
        \/ /\ first <= Len(line) /\ line[first] = "<"
           /\ LET n == IF first + 1 <= Len(line) /\ line[first + 1] = "/"
                       THEN first + 2 ELSE first + 1
              IN  n <= Len(line) /\ IsLetter(line[n])
        \/ StartsWithAt(toLowerCase(line), <<"s", "p", "e", "c", "i", "f", "i", "c", "i", "t", "y">>, 1)
        \/ Includes(line, <<" ", "=", " ">>)
        \/ first <= Len(line) /\ line[first] = "@"

\* text.replace(/^(?:\d+\.\s*)/, '')
StripOrdinal(text) ==
    LET d == SkipDigits(text, 1)
    IN  IF d > 1 /\ d <= Len(text) /\ text[d] = "."
        THEN Slice(text, SkipSpaces(text, d + 1), Len(text))
        ELSE text

IsQuestionMark(c) == c = "?"

\* text.match(/[^?]+?\?/g) from index i: each match starts at the next
\* character that is not '?' and ends at the first '?' after it
RECURSIVE QuestionSentences(_, _)
QuestionSentences(text, i) ==
    LET p == SkipSep(text, IsQuestionMark, i)
        q == NextSep(text, IsQuestionMark, p)
    IN  IF p > Len(text) \/ q > Len(text) THEN <<>>
        ELSE <<Slice(text, p, q)>> \o QuestionSentences(text, q + 1)

HasLetter(s) == \E i \in 1..Len(s) : IsLetter(s[i])

IsTrailingPunct(c) == c \in {"-", ".", ":", ";", ",", "/"}

\* the last index <= i of s whose character does not satisfy P (0 if none)
SkipBack(s, P(_), i) == LastFrom(1, i, LAMBDA k : ~P(s[k]))

\* text.replace(/[-.:;,/]+$/, '')
StripTrailingPunct(text) == Slice(text, 1, SkipBack(text, IsTrailingPunct, Len(text)))

\* text.replace(/\?+$/, '?')
SingleTrailingMark(text) ==
    IF EndsWithChar(text, "?")
    THEN Slice(text, 1, SkipBack(text, IsQuestionMark, Len(text))) \o <<"?">>
    ELSE text

\* lines.map((line) => line.trim())
TrimAll(seq) == [i \in 1..Len(seq) |-> trim(seq[i])]

\* text.replace(/\/\*[\s\S]*?\*\//g, ' ')
StripComments(text) == ReplaceDelimited(text, <<"/", "*">>, <<"*", "/">>, <<" ">>, 1)

\* text.slice(0, metadataMatch.index).trim() when metadataRegex matched at m
CutAt(text, m) == IF m # 0 THEN trim(Slice(text, 1, m - 1)) ELSE text

CutMetadata(text) == CutAt(text, MetadataIndex(toLowerCase(text), 1))

\* text.split(/[\r\n]+/).map(trim).filter(Boolean)
NonEmptyLines(text) == SelectFrom(TrimAll(SplitRuns(text, IsLineBreak, 1)), IsNonEmpty, 1)

IsKeywordLine(line) == HasQuestionKeyword(line) /\ ~isCodeLike(line)

IsPlainLine(line) == ~isCodeLike(line)

\* (keywordLine ?? fallbackLine ?? lines[0] ?? '').trim(), the two finds given
\* as indexes (0: undefined)
LineAt(lines, keywordLine, fallbackLine) ==
    trim(IF keywordLine # 0 THEN lines[keywordLine]
         ELSE IF fallbackLine # 0 THEN lines[fallbackLine]
         ELSE IF Len(lines) > 0 THEN lines[1]
         ELSE <<>>)

PickLine(lines) ==
    LineAt(lines, FindIndex(lines, IsKeywordLine, 1), FindIndex(lines, IsPlainLine, 1))

\* (firstValid ?? questionSentences[0]).trim() when there are question
\* sentences, the text itself when there are none
SentenceAt(text, questionSentences, firstValid) ==
    IF Len(questionSentences) = 0 THEN text
    ELSE trim(IF firstValid # 0 THEN questionSentences[firstValid]
              ELSE questionSentences[1])

PickSentence(text, questionSentences) ==
    SentenceAt(text, questionSentences, FindIndex(questionSentences, HasLetter, 1))

FirstQuestionSentence(text) == PickSentence(text, QuestionSentences(text, 1))

\* lines 259-262: a text that does not end in '?' loses its trailing
\* punctuation and gains a '?'
EnsureQuestionMark(text) ==
    IF EndsWithChar(text, "?") THEN text
    ELSE trim(StripTrailingPunct(text)) \o <<"?">>

\* lines 223-264, for a text cleanText left non-empty
CleanNonEmpty(text) ==
    trim(SingleTrailingMark(EnsureQuestionMark(trim(CollapseWhitespace(
        FirstQuestionSentence(StripOrdinal(PickLine(NonEmptyLines(
            CutMetadata(StripComments(text)))))), 1)))))

\* lines 220-221: an empty cleanText ends the function
CleanOrEmpty(text) == IF Len(text) = 0 THEN <<>> ELSE CleanNonEmpty(text)

cleanQuestionText(value) == CleanOrEmpty(cleanText(value))

(***************************************************************************)
(* The text fallback stages (extractQuestionsFromText).                    *)
(***************************************************************************)
\* the truncation applied to every result list: slice(0, 5)
MaxQuestions == 5

\* the sentence and line stages keep a segment only if its length exceeds this
MinSegmentLength == 10

\* As\s+(?:a|an)\s[^?]+\? tried at index i (case-insensitive): the index of
\* the closing '?', 0 if the pattern does not match there
ContextualBodyEnd(raw, lower, i) ==
    IF ~StartsWithAt(lower, <<"a", "s">>, i) THEN 0
    ELSE LET w == SkipSpaces(raw, i + 2)
             b == IF w = i + 2 \/ w > Len(raw) \/ lower[w] # "a" THEN 0
                  ELSE IF w + 1 <= Len(raw) /\ IsSpace(raw[w + 1]) THEN w + 2
                  ELSE IF /\ w + 2 <= Len(raw)
                          /\ lower[w + 1] = "n"
                          /\ IsSpace(raw[w + 2]) THEN w + 3
                  ELSE 0
             q == IF b = 0 THEN 0 ELSE NextSep(raw, IsQuestionMark, b)
         IN  IF b = 0 \/ b > Len(raw) \/ q = b \/ q > Len(raw) THEN 0 ELSE q

\* /(?:\d+\.\s*)?(?:As\s+(?:a|an)\s[^?]+\?)/gi tried at index i
ContextualEnd(raw, lower, i) ==
    LET d == SkipDigits(raw, i)
    IN  IF d > i /\ d <= Len(raw) /\ raw[d] = "."
        THEN ContextualBodyEnd(raw, lower, SkipSpaces(raw, d + 1))
        ELSE ContextualBodyEnd(raw, lower, i)

\* raw.match of the contextual pattern: every match, left to right
RECURSIVE ContextualMatches(_, _, _)
ContextualMatches(raw, lower, i) ==
    LET s == FirstFrom(i, Len(raw), LAMBDA k : ContextualEnd(raw, lower, k) # 0)
    IN  IF s > Len(raw) THEN <<>>
        ELSE <<Slice(raw, s, ContextualEnd(raw, lower, s))>>
             \o ContextualMatches(raw, lower, ContextualEnd(raw, lower, s) + 1)

\* the list marker at index i: \d+\. (numbered) or [-*] (bullet); the index
\* after the marker, 0 if there is none
MarkerEnd(raw, i, kind) ==
    IF kind = "numbered"
    THEN LET d == SkipDigits(raw, i)
         IN  IF d > i /\ d <= Len(raw) /\ raw[d] = "." THEN d + 1 ELSE 0
    ELSE IF i <= Len(raw) /\ raw[i] \in {"-", "*"} THEN i + 1 ELSE 0

\* the lookahead (?=(?:\n marker \s+)|$) at index e
ItemLookahead(raw, e, kind) ==
    \/ e > Len(raw)
    \/ /\ raw[e] = "\n"
       /\ LET m == MarkerEnd(raw, e + 1, kind)
          IN  m # 0 /\ m <= Len(raw) /\ IsSpace(raw[m])

\* [^]+? followed by the lookahead: the first index >= e where the lookahead holds
LazyEnd(raw, e, kind) ==
    FirstFrom(e, Len(raw) + 1, LAMBDA k : ItemLookahead(raw, k, kind))

\* marker \s+ [^]+? (?=...) tried at index i: the index after the match, 0 if
\* none.  \s+ takes the whole whitespace run; when the run reaches the end of
\* the text it gives back one character to [^]+?
ItemEnd(raw, i, kind) ==
    LET m == MarkerEnd(raw, i, kind)
        w == SkipSpaces(raw, m)
    IN  IF m = 0 \/ w = m THEN 0
        ELSE IF w <= Len(raw) THEN LazyEnd(raw, w + 1, kind)
        ELSE IF w - m >= 2 THEN Len(raw) + 1
        ELSE 0

\* raw.match of the numbered or the bullet pattern: every match, left to right
RECURSIVE ItemMatches(_, _, _)
ItemMatches(raw, i, kind) ==
    LET s == FirstFrom(i, Len(raw), LAMBDA k : ItemEnd(raw, k, kind) # 0)
    IN  IF s > Len(raw) THEN <<>>
        ELSE <<Slice(raw, s, ItemEnd(raw, s, kind) - 1)>>
             \o ItemMatches(raw, ItemEnd(raw, s, kind), kind)

\* segment.replace(/^[-*]\s*/, '')
StripBullet(text) ==
    IF Len(text) > 0 /\ text[1] \in {"-", "*"}
    THEN Slice(text, SkipSpaces(text, 2), Len(text))
    ELSE text

\* line.replace(/^\d+\.?\s*/, '')
StripLineNumber(text) ==
    LET d == SkipDigits(text, 1)
        e == IF d <= Len(text) /\ text[d] = "." THEN d + 1 ELSE d
    IN  IF d > 1 THEN Slice(text, SkipSpaces(text, e), Len(text)) ELSE text

\* the separator (?<=[?.!])\s+(?=[A-Z0-9]) starts at index i
IsSentenceBreak(raw, i) ==
    /\ i >= 2
    /\ IsSpace(raw[i])
    /\ raw[i - 1] \in {"?", ".", "!"}
    /\ LET w == SkipSpaces(raw, i)
       IN  w <= Len(raw) /\ (raw[w] \in UpperSet \/ IsDigit(raw[w]))

\* raw.split(/(?<=[?.!])\s+(?=[A-Z0-9])/): the current piece starts at start
RECURSIVE SplitSentences(_, _, _)
SplitSentences(raw, start, i) ==
    LET b == FirstFrom(i, Len(raw), LAMBDA k : IsSentenceBreak(raw, k))
    IN  IF b > Len(raw) THEN <<Slice(raw, start, Len(raw))>>
        ELSE <<Slice(raw, start, b - 1)>>
             \o SplitSentences(raw, SkipSpaces(raw, b), SkipSpaces(raw, b))

IsNewline(c) == c = "\n"

IsLongSegment(s) == Len(s) > MinSegmentLength

\* segments.map((segment) => segment.replace(/^\d+\.\s*/, '').trim())
StripOrdinals(seq) == [i \in 1..Len(seq) |-> trim(StripOrdinal(seq[i]))]

\* segments.map((segment) => segment.replace(/^[-*]\s*/, '').trim())
StripBullets(seq) == [i \in 1..Len(seq) |-> trim(StripBullet(seq[i]))]

\* lines.map((line) => line.replace(/^\d+\.?\s*/, '').replace(/^[-*]\s*/, '').trim())
StripLineMarkers(seq) == [i \in 1..Len(seq) |-> trim(StripBullet(StripLineNumber(seq[i])))]

\* lines 391-394: the line stage
FromLines(raw) == SelectFrom(StripLineMarkers(SplitRuns(raw, IsNewline, 1)), IsLongSegment, 1)

\* lines 387-394: the sentences, if any, else the line stage
FromSentences(raw, sentences) ==
    IF Len(sentences) > 0 THEN Take(sentences, MaxQuestions) ELSE FromLines(raw)

\* lines 378-394: the bullet items, if the pattern matched, else the sentence stage
FromBullets(raw, bulletMatches) ==
    IF Len(bulletMatches) > 0 THEN SelectFrom(StripBullets(bulletMatches), IsNonEmpty, 1)
    ELSE FromSentences(raw, SelectFrom(TrimAll(SplitSentences(raw, 1, 1)), IsLongSegment, 1))

\* lines 373-394: the numbered items, if the pattern matched, else the bullet stage
FromNumbered(raw, numberedMatches) ==
    IF Len(numberedMatches) > 0 THEN SelectFrom(StripOrdinals(numberedMatches), IsNonEmpty, 1)
    ELSE FromBullets(raw, ItemMatches(raw, 1, "bullet"))

\* lines 368-394: the contextual matches, if any, else the numbered stage
FromContextual(raw, contextualMatches) ==
    IF Len(contextualMatches) > 0 THEN TrimAll(contextualMatches)
    ELSE FromNumbered(raw, ItemMatches(raw, 1, "numbered"))

extractQuestionsFromText(raw) ==
    FromContextual(raw, ContextualMatches(raw, toLowerCase(raw), 1))

BehavioralKeywords ==
    { <<"d", "e", "s", "c", "r", "i", "b", "e", " ", "a", " ", "t", "i", "m", "e">>, <<"t", "e", "l", "l", " ", "m", "e", " ", "a", "b", "o", "u", "t">>, <<"h", "o", "w", " ", "d", "i", "d", " ", "y", "o", "u", " ", "h", "a", "n", "d", "l", "e">>, <<"g", "i", "v", "e", " ", "a", "n", " ", "e", "x", "a", "m", "p", "l", "e">>,
      <<"w", "a", "l", "k", " ", "m", "e", " ", "t", "h", "r", "o", "u", "g", "h">> }

detectQuestionType(question) ==
    LET normalized == toLowerCase(question)
    IN  IF \E k \in BehavioralKeywords : Includes(normalized, k)
        THEN "behavioral" ELSE "technical"

\* normalizeDifficulty without the toLowerCase of line 153
normalizeDifficultyCaseSensitive(value) ==
    LET normalized == trim(value)
    IN  IF Includes(normalized, <<"j", "u", "n", "i", "o", "r">>) \/ Includes(normalized, <<"e", "n", "t", "r", "y">>) THEN <<"J", "u", "n", "i", "o", "r">>
        ELSE IF Includes(normalized, <<"s", "e", "n", "i", "o", "r">>) \/ Includes(normalized, <<"l", "e", "a", "d">>) THEN <<"S", "e", "n", "i", "o", "r">>
        ELSE <<"M", "i", "d", "-", "L", "e", "v", "e", "l">>

normalizeDifficulty(value) ==
    LET normalized == toLowerCase(trim(value))
    IN  IF Includes(normalized, <<"j", "u", "n", "i", "o", "r">>) \/ Includes(normalized, <<"e", "n", "t", "r", "y">>) THEN <<"J", "u", "n", "i", "o", "r">>
        ELSE IF Includes(normalized, <<"s", "e", "n", "i", "o", "r">>) \/ Includes(normalized, <<"l", "e", "a", "d">>) THEN <<"S", "e", "n", "i", "o", "r">>
        ELSE <<"M", "i", "d", "-", "L", "e", "v", "e", "l">>

\* String.prototype.toUpperCase on one character
toUpperChar(c) ==
    IF c \in LowerSet THEN UpperChars[CHOOSE i \in 1..Len(LowerChars) : LowerChars[i] = c]
    ELSE c

\* value.charAt(0).toUpperCase() + value.slice(1)
capitalize(value) ==
    IF Len(value) = 0 THEN <<>> ELSE <<toUpperChar(value[1])>> \o Tail(value)

\* a character outside [a-zA-Z0-9]: it is white space or becomes a space
IsKeywordSeparator(c) == ~(IsLetter(c) \/ IsDigit(c))

\* slice(0, 5) of deriveKeywords
MaxKeywords == 5

\* token.length > 2
MinTokenLength == 2

\* deriveKeywords: the tokens longer than 2 characters, lowercased, each one
\* once in the order of its first occurrence, the first 5 capitalized
deriveKeywords(question) ==
    LET tokens == SelectSeq(SplitRuns(question, IsKeywordSeparator, 1),
                            LAMBDA token : Len(token) > MinTokenLength)
        lowered == [i \in 1..Len(tokens) |-> toLowerCase(tokens[i])]
        first == SelectSeq(Indices(lowered),
                           LAMBDA i : \A j \in 1..(i - 1) : lowered[j] # lowered[i])
        unique == Take([k \in 1..Len(first) |-> lowered[first[k]]], MaxKeywords)
    IN  [k \in 1..Len(unique) |-> capitalize(unique[k])]

\* a GeneratedQuestionCard; the fields the answer texts and the tips
\* are derived from are question and type
Card(question, type, difficulty, keywords) ==
    [question |-> question, type |-> type, difficulty |-> difficulty,
     keywords |-> keywords]

\* questions.slice(0, 5).map(...) of fallbackCardsFromText
TextCards(extracted, difficulty) ==
    [i \in 1..Len(extracted) |->
        Card(cleanQuestionText(extracted[i]), detectQuestionType(extracted[i]),
             difficulty, deriveKeywords(cleanQuestionText(extracted[i])))]

fallbackCardsFromText(raw, fallbackDifficulty) ==
    TextCards(Take(extractQuestionsFromText(raw), MaxQuestions),
              normalizeDifficulty(fallbackDifficulty))

(***************************************************************************)
(* JSON.parse.  A parsed value is a record [t, v]: t is "str" (v the       *)
(* characters), "num" (v: the number is not zero), "lit" (v is "null",     *)
(* "true" or "false"), "arr" (v the elements) or "obj" (v the members      *)
(* [k, v] in source order).  A parser returns [ok, v, p]: p is the index   *)
(* after the value.                                                        *)
(***************************************************************************)
ParseFail == [ok |-> FALSE]

Parsed(value, next) == [ok |-> TRUE, v |-> value, p |-> next]

Undefined == [t |-> "undefined"]

\* the characters of a string literal whose opening quote precedes index i;
\* the escapes are \" \\ \/ \n \r \t
RECURSIVE ParseStringChars(_, _, _)
ParseStringChars(s, i, acc) ==
    IF i > Len(s) THEN ParseFail
    ELSE IF s[i] = "\"" THEN Parsed([t |-> "str", v |-> acc], i + 1)
    ELSE IF s[i] \in {"\n", "\r", "\t"} THEN ParseFail
    ELSE IF s[i] = "\\"
    THEN IF i + 1 > Len(s) THEN ParseFail
         ELSE IF s[i + 1] \in {"\"", "\\", "/"}
         THEN ParseStringChars(s, i + 2, Append(acc, s[i + 1]))
         ELSE IF s[i + 1] = "n" THEN ParseStringChars(s, i + 2, Append(acc, "\n"))
         ELSE IF s[i + 1] = "r" THEN ParseStringChars(s, i + 2, Append(acc, "\r"))
         ELSE IF s[i + 1] = "t" THEN ParseStringChars(s, i + 2, Append(acc, "\t"))
         ELSE ParseFail
    ELSE ParseStringChars(s, i + 1, Append(acc, s[i]))

\* the exponent [eE][+-]?\d+, if any, at index c: the index after the number, 0
\* if an exponent starts there and has no digits
ExponentEnd(s, c, d) ==
    IF c > Len(s) \/ s[c] \notin {"e", "E"} THEN c
    ELSE IF SkipDigits(s, d) > d THEN SkipDigits(s, d)
    ELSE 0

\* the index of the first exponent digit for an exponent mark at index c
ExponentDigits(s, c) ==
    IF c + 1 <= Len(s) /\ s[c + 1] \in {"+", "-"} THEN c + 2 ELSE c + 1

\* the fraction \.\d+, if any, at index b: the index after it, 0 if a '.'
\* there has no digits
FractionEnd(s, b) ==
    IF b > Len(s) \/ s[b] # "." THEN b
    ELSE IF SkipDigits(s, b + 1) > b + 1 THEN SkipDigits(s, b + 1)
    ELSE 0

\* the number whose digits start at a, whose integer part ends before b,
\* whose fraction ends before c and whose exponent ends before e
NumberValue(s, a, b, c, e) ==
    IF b = a \/ (s[a] = "0" /\ b # a + 1) \/ c = 0 \/ e = 0 THEN ParseFail
    ELSE Parsed([t |-> "num", v |-> \E k \in a..(c - 1) : s[k] \in DigitChars \ {"0"}], e)

NumberParts(s, a, b, c) ==
    NumberValue(s, a, b, c, IF c = 0 THEN 0 ELSE ExponentEnd(s, c, ExponentDigits(s, c)))

NumberFrom(s, a, b) == NumberParts(s, a, b, FractionEnd(s, b))

\* -?(0|[1-9]\d*)(\.\d+)?([eE][+-]?\d+)? at index i
ParseNumber(s, i) ==
    IF s[i] = "-" THEN NumberFrom(s, i + 1, SkipDigits(s, i + 1))
    ELSE NumberFrom(s, i, SkipDigits(s, i))

RECURSIVE ParseValue(_, _)
RECURSIVE ParseElements(_, _, _)
RECURSIVE ParseMembers(_, _, _)

\* after an element: ',' and the next element, or ']'
ElementsNext(s, acc, j) ==
    IF j > Len(s) THEN ParseFail
    ELSE IF s[j] = "," THEN ParseElements(s, j + 1, acc)
    ELSE IF s[j] = "]" THEN Parsed([t |-> "arr", v |-> acc], j + 1)
    ELSE ParseFail

\* the element parsed as r joins the elements before it
ElementParsed(s, acc, r) ==
    IF ~r.ok THEN ParseFail
    ELSE ElementsNext(s, Append(acc, r.v), SkipSpaces(s, r.p))

\* the elements of an array after '[' or ',': the next value starts at index i
ParseElements(s, i, acc) == ElementParsed(s, acc, ParseValue(s, i))

\* after a member: ',' and the next member, or '}'
MembersNext(s, acc, j) ==
    IF j > Len(s) THEN ParseFail
    ELSE IF s[j] = "," THEN ParseMembers(s, j + 1, acc)
    ELSE IF s[j] = "}" THEN Parsed([t |-> "obj", v |-> acc], j + 1)
    ELSE ParseFail

\* the member value parsed as r joins the members before it under key name
MemberParsed(s, acc, name, r) ==
    IF ~r.ok THEN ParseFail
    ELSE MembersNext(s, Append(acc, [k |-> name, v |-> r.v]), SkipSpaces(s, r.p))

\* the ':' at index c and the member's value
MemberValue(s, acc, name, c) ==
    IF c <= Len(s) /\ s[c] = ":" THEN MemberParsed(s, acc, name, ParseValue(s, c + 1))
    ELSE ParseFail

\* the key parsed as key
MemberKeyed(s, acc, key) ==
    IF ~key.ok THEN ParseFail
    ELSE MemberValue(s, acc, key.v.v, SkipSpaces(s, key.p))

\* the key of a member: a string literal at index k
MemberKey(s, acc, k) ==
    IF k <= Len(s) /\ s[k] = "\"" THEN MemberKeyed(s, acc, ParseStringChars(s, k + 1, <<>>))
    ELSE ParseFail

\* the members of an object after '{' or ',': the next key starts at index i
ParseMembers(s, i, acc) == MemberKey(s, acc, SkipSpaces(s, i))

\* an object whose '{' precedes index j, the first index after whitespace
ObjectAt(s, j) ==
    IF j <= Len(s) /\ s[j] = "}" THEN Parsed([t |-> "obj", v |-> <<>>], j + 1)
    ELSE ParseMembers(s, j, <<>>)

\* an array whose '[' precedes index j, the first index after whitespace
ArrayAt(s, j) ==
    IF j <= Len(s) /\ s[j] = "]" THEN Parsed([t |-> "arr", v |-> <<>>], j + 1)
    ELSE ParseElements(s, j, <<>>)

\* a JSON value at index i, which holds no whitespace
ValueAt(s, i) ==
    IF i > Len(s) THEN ParseFail
    ELSE IF s[i] = "{" THEN ObjectAt(s, SkipSpaces(s, i + 1))
    ELSE IF s[i] = "[" THEN ArrayAt(s, SkipSpaces(s, i + 1))
    ELSE IF s[i] = "\"" THEN ParseStringChars(s, i + 1, <<>>)
    ELSE IF s[i] = "-" \/ IsDigit(s[i]) THEN ParseNumber(s, i)
    ELSE IF StartsWithAt(s, <<"t", "r", "u", "e">>, i) THEN Parsed([t |-> "lit", v |-> "true"], i + 4)
    ELSE IF StartsWithAt(s, <<"f", "a", "l", "s", "e">>, i) THEN Parsed([t |-> "lit", v |-> "false"], i + 5)
    ELSE IF StartsWithAt(s, <<"n", "u", "l", "l">>, i) THEN Parsed([t |-> "lit", v |-> "null"], i + 4)
    ELSE ParseFail

\* a JSON value, after optional whitespace, from index i
ParseValue(s, i) == ValueAt(s, SkipSpaces(s, i))

\* the whole text is one value and whitespace
WholeText(text, r) ==
    IF r.ok /\ SkipSpaces(text, r.p) > Len(text) THEN [ok |-> TRUE, v |-> r.v]
    ELSE ParseFail

\* JSON.parse(text): [ok |-> FALSE] stands for the SyntaxError it throws
JSONParse(text) == WholeText(text, ParseValue(text, 1))

\* the index of the last member of an object with key name, 0 if none
RECURSIVE LastMember(_, _, _)
LastMember(members, name, i) ==
    IF i < 1 THEN 0
    ELSE IF members[i].k = name THEN i
    ELSE LastMember(members, name, i - 1)

\* value.name (value?.name): undefined unless value is an object with that key
MemberAt(members, i) == IF i = 0 THEN Undefined ELSE members[i].v

Prop(value, name) ==
    IF value.t # "obj" THEN Undefined
    ELSE MemberAt(value.v, LastMember(value.v, name, Len(value.v)))

\* the truthiness of a parsed value
Truthy(value) ==
    CASE value.t = "str" -> Len(value.v) > 0
      [] value.t = "num" -> value.v
      [] value.t = "lit" -> value.v = "true"
      [] value.t = "undefined" -> FALSE
      [] OTHER -> TRUE

IsString(value) == value.t = "str"

\* value ?? '' is the empty string
IsNullish(value) == value.t = "undefined" \/ (value.t = "lit" /\ value.v = "null")

DifficultyNames == { <<"J", "u", "n", "i", "o", "r">>, <<"M", "i", "d", "-", "L", "e", "v", "e", "l">>, <<"S", "e", "n", "i", "o", "r">> }

(***************************************************************************)
(* The field sanitizer and the normalizer.                                 *)
(***************************************************************************)
\* item.type === 'behavioral' ? 'behavioral' : 'technical'
TypeOf(type) ==
    IF IsString(type) /\ type.v = <<"b", "e", "h", "a", "v", "i", "o", "r", "a", "l">> THEN "behavioral" ELSE "technical"

\* a supplied difficulty that is one of the three names is kept, any other
\* gives way to the fallback
DifficultyOf(supplied, fallback) ==
    IF IsString(supplied) /\ supplied.v \in DifficultyNames THEN supplied.v ELSE fallback

\* String(keyword) for an element of the keywords array that is a string,
\* null, true or false; any other element is written as an object is
StringOf(value) ==
    IF value.t = "str" THEN value.v
    ELSE IF value.t = "lit"
    THEN IF value.v = "true" THEN <<"t", "r", "u", "e">> ELSE IF value.v = "false" THEN <<"f", "a", "l", "s", "e">> ELSE <<"n", "u", "l", "l">>
    ELSE <<"[", "o", "b", "j", "e", "c", "t", " ", "O", "b", "j", "e", "c", "t", "]">>

\* lines 187-190: the supplied keywords, cleaned, if any is left, else the
\* keywords derived from the question
Keywords(supplied, questionText) ==
    LET sanitizedKeywords ==
            IF supplied.t = "arr"
            THEN SelectSeq([i \in 1..Len(supplied.v) |-> cleanText(StringOf(supplied.v[i]))],
                           LAMBDA keyword : Len(keyword) > 0)
            ELSE <<>>
    IN  IF Len(sanitizedKeywords) > 0 THEN sanitizedKeywords
        ELSE deriveKeywords(questionText)

\* sanitizeQuestion on the fields of the item.  The result is [kind |->
\* "card", card |-> c], [kind |-> "undefined"], or [kind |-> "throw"]: the
\* TypeError of cleanText (a suggestedAnswer that is no string has no
\* replace) or of cleanCode (a truthy codeExample that is no string has no trim)
SanitizeFields(question, type, supplied, suggestedAnswer, codeExample, keywords, fallbackDifficulty) ==
    IF ~Truthy(question) \/ ~IsString(question) THEN [kind |-> "undefined"]
    ELSE IF ~IsNullish(suggestedAnswer) /\ ~IsString(suggestedAnswer)
    THEN [kind |-> "throw"]
    ELSE IF TypeOf(type) = "technical" /\ Truthy(codeExample) /\ ~IsString(codeExample)
    THEN [kind |-> "throw"]
    ELSE [kind |-> "card",
          card |-> Card(cleanQuestionText(question.v), TypeOf(type),
                        DifficultyOf(supplied, normalizeDifficulty(fallbackDifficulty)),
                        Keywords(keywords, cleanQuestionText(question.v)))]

sanitizeQuestion(item, fallbackDifficulty) ==
    SanitizeFields(Prop(item, <<"q", "u", "e", "s", "t", "i", "o", "n">>), Prop(item, <<"t", "y", "p", "e">>), Prop(item, <<"d", "i", "f", "f", "i", "c", "u", "l", "t", "y">>),
                   Prop(item, <<"s", "u", "g", "g", "e", "s", "t", "e", "d", "A", "n", "s", "w", "e", "r">>), Prop(item, <<"c", "o", "d", "e", "E", "x", "a", "m", "p", "l", "e">>),
                   Prop(item, <<"k", "e", "y", "w", "o", "r", "d", "s">>), fallbackDifficulty)

\* raw.slice(start, end + 1), or null (the empty text) without a '{' before a '}'
BlockBetween(raw, start, end) ==
    IF start = 0 \/ end = 0 \/ end <= start THEN <<>>
    ELSE Slice(raw, start, end)

extractJsonBlock(raw) ==
    BlockBetween(raw, IndexOfFrom(raw, <<"{">>, 1), LastIndexOfFrom(raw, <<"}">>, Len(raw)))

IsCard(r) == r.kind = "card"

IsThrow(r) == r.kind = "throw"

\* the cards among the results of sanitizeQuestion
CardsIn(kept) == [i \in 1..Len(kept) |-> kept[i].card]

\* parsed.questions.map(sanitizeQuestion).filter(Boolean); a throw leaves the
\* try block, whose catch only logs a warning
KeptCards(results) ==
    IF FindIndex(results, IsThrow, 1) # 0 THEN <<>>
    ELSE CardsIn(SelectFrom(results, IsCard, 1))

SanitizeAll(items, fallbackDifficulty) ==
    [i \in 1..Len(items) |-> sanitizeQuestion(items[i], fallbackDifficulty)]

\* Array.isArray(parsed?.questions)
CardsOfList(list, fallbackDifficulty) ==
    IF list.t # "arr" THEN <<>> ELSE KeptCards(SanitizeAll(list.v, fallbackDifficulty))

CardsOfParsed(parsed, fallbackDifficulty) ==
    IF ~parsed.ok THEN <<>>
    ELSE CardsOfList(Prop(parsed.v, <<"q", "u", "e", "s", "t", "i", "o", "n", "s">>), fallbackDifficulty)

\* lines 122-137: the cards of the JSON stage, <<>> when the block does not
\* parse, has no questions array, or gives no card
JsonStageCards(json, fallbackDifficulty) ==
    CardsOfParsed(JSONParse(json), fallbackDifficulty)

\* lines 130-139 without the fallback of line 139
CardsOrFallbackWithoutFallback(raw, fallbackDifficulty, cards) == cards

\* lines 130-139: the cards of the JSON stage if there are any, else the text stages
CardsOrFallback(raw, fallbackDifficulty, cards) ==
    IF Len(cards) > 0 THEN cards ELSE fallbackCardsFromText(raw, fallbackDifficulty)

\* lines 121-139 returning what the JSON block gives whenever there is a block
JsonOrFallbackWithoutCatch(raw, fallbackDifficulty, json) ==
    IF Len(json) > 0 THEN JsonStageCards(json, fallbackDifficulty)
    ELSE fallbackCardsFromText(raw, fallbackDifficulty)

JsonOrFallback(raw, fallbackDifficulty, json) ==
    CardsOrFallback(raw, fallbackDifficulty,
                    IF Len(json) > 0 THEN JsonStageCards(json, fallbackDifficulty) ELSE <<>>)

normalizeQuestions(raw, fallbackDifficulty) ==
    IF Len(trim(raw)) = 0 THEN <<>>
    ELSE JsonOrFallback(raw, fallbackDifficulty, extractJsonBlock(raw))

(***************************************************************************)
(* generateInterviewQuestions.                                             *)
(***************************************************************************)
\* an environment variable that is not set (import.meta.env.X is undefined)
Unset == <<"(undefined)">>

DEFAULT_GEMINI_MODEL == <<"g", "e", "m", "i", "n", "i", "-", "1", ".", "5", "-", "f", "l", "a", "s", "h", "-", "0", "0", "2">>

DEFAULT_GEMINI_API_VERSION == <<"v", "1">>

\* value ?? '' in place of value ?? fallback
OrDefaultEmpty(value, fallback) == IF value = Unset THEN <<>> ELSE value

\* value ?? fallback for an environment variable
OrDefault(value, fallback) == IF value = Unset THEN fallback ELSE value

\* the configuration checks without the API key check of lines 33-35
configErrorWithoutKeyCheck(config) ==
    IF Len(trim(OrDefault(config.model, DEFAULT_GEMINI_MODEL))) = 0
    THEN "missing-model"
    ELSE IF Len(trim(OrDefault(config.apiVersion, DEFAULT_GEMINI_API_VERSION))) = 0
    THEN "missing-version"
    ELSE "none"

\* the configuration checks made before the prompt is built: the error
\* thrown, "none" if the configuration passes
configError(config) ==
    IF config.apiKey = Unset \/ Len(config.apiKey) = 0 THEN "missing-key"
    ELSE IF Len(trim(OrDefault(config.model, DEFAULT_GEMINI_MODEL))) = 0
    THEN "missing-model"
    ELSE IF Len(trim(OrDefault(config.apiVersion, DEFAULT_GEMINI_API_VERSION))) = 0
    THEN "missing-version"
    ELSE "none"

\* Array.prototype.flatMap over the candidates' parts
RECURSIVE FlattenParts(_, _)
FlattenParts(candidates, i) ==
    IF i > Len(candidates) THEN <<>>
    ELSE candidates[i] \o FlattenParts(candidates, i + 1)

\* a payload is [has, candidates]: has is FALSE when it has no candidates
\* array; a candidate is the sequence of its parts (empty without content or
\* parts), a part is [isString, text]
PartTexts(parts) ==
    [i \in 1..Len(parts) |-> IF parts[i].isString THEN trim(parts[i].text) ELSE <<>>]

extractFirstCandidateText(payload) ==
    IF ~payload.has THEN <<>>
    ELSE Join(SelectFrom(PartTexts(FlattenParts(payload.candidates, 1)), IsNonEmpty, 1),
              <<"\n">>, 1)

Throws(what) == [kind |-> "throw", error |-> what]

Returns(cards) == [kind |-> "return", cards |-> cards]

\* lines 68-72 without the slice(0, 5) of line 72
returnQuestionsWithoutSlice(structuredQuestions) ==
    IF Len(structuredQuestions) = 0 THEN Throws("empty-response")
    ELSE Returns(structuredQuestions)

\* lines 68-72 without the throw of lines 68-70
returnQuestionsWithoutThrow(structuredQuestions) ==
    Returns(Take(structuredQuestions, MaxQuestions))

\* lines 68-72: an empty list is an error, any other list is truncated
returnQuestions(structuredQuestions) ==
    IF Len(structuredQuestions) = 0 THEN Throws("empty-response")
    ELSE Returns(Take(structuredQuestions, MaxQuestions))

\* lines 66-72: the text of the payload is normalized and returned
questionsFromText(text, fallbackDifficulty) ==
    returnQuestions(normalizeQuestions(text, fallbackDifficulty))

\* lines 57-72: what the call settles with once fetch has settled.  A
\* response is [kind, payload]: "ok" (a 2xx status and a JSON body),
\* "http-error" (a status that is not 2xx), "bad-body" (response.json()
\* rejects) or "network-error" (fetch itself rejects)
afterFetch(response, fallbackDifficulty) ==
    IF response.kind = "network-error" THEN Throws("network-error")
    ELSE IF response.kind = "http-error" THEN Throws("request-failed")
    ELSE IF response.kind = "bad-body" THEN Throws("bad-body")
    ELSE questionsFromText(extractFirstCandidateText(response.payload), fallbackDifficulty)

(***************************************************************************)
(* buildPrompt.                                                            *)
(***************************************************************************)
\* value.trim() || fallback
TrimmedOr(value, fallback) == IF Len(trim(value)) = 0 THEN fallback ELSE trim(value)

\* lines 79-80 of the template, up to ${safeExperience}
PromptHead ==
    <<"Y", "o", "u", " ", "a", "r", "e", " ", "a", "n", " ", "e", "x", "p", "e", "r", "i", "e", "n", "c", "e", "d", " ", "i", "n", "t", "e", "r", "v", "i", "e", "w", "e", "r", " ", "a", "n", "d", " ", "c", "a", "r", "e", "e", "r", " ", "c", "o", "a", "c", "h", ".", "\n">>
    \o <<"G", "e", "n", "e", "r", "a", "t", "e", " ", "f", "i", "v", "e", " ", "i", "n", "t", "e", "r", "v", "i", "e", "w", " ", "q", "u", "e", "s", "t", "i", "o", "n", "s", " ", "f", "o", "r", " ", "a", " ">>

\* lines 80-105 of the template, from ${safeTitle} to the second ${safeExperience}
PromptBody ==
    <<" ", "c", "a", "n", "d", "i", "d", "a", "t", "e", ".", "\n">>
    \o <<"R", "e", "s", "p", "o", "n", "d", " ", "O", "N", "L", "Y", " ", "w", "i", "t", "h", " ", "m", "i", "n", "i", "f", "i", "e", "d", " ", "J", "S", "O", "N", " ", "t", "h", "a", "t", " ", "m", "a", "t", "c", "h", "e", "s", " ", "t", "h", "i", "s", " ", "T", "y", "p", "e", "S", "c", "r", "i", "p", "t", " ", "t", "y", "p", "e", " ", "w", "i", "t", "h", " ", "n", "o", " ", "a", "d", "d", "i", "t", "i", "o", "n", "a", "l", " ", "c", "o", "m", "m", "e", "n", "t", "a", "r", "y", ":", "\n">>
    \o <<"{", "\n">>
    \o <<" ", " ", "\"", "q", "u", "e", "s", "t", "i", "o", "n", "s", "\"", ":", " ", "[", "\n">>
    \o <<" ", " ", " ", " ", "{", "\n">>
    \o <<" ", " ", " ", " ", " ", " ", "\"", "q", "u", "e", "s", "t", "i", "o", "n", "\"", ":", " ", "s", "t", "r", "i", "n", "g", ",", "\n">>
    \o <<" ", " ", " ", " ", " ", " ", "\"", "t", "y", "p", "e", "\"", ":", " ", "\"", "t", "e", "c", "h", "n", "i", "c", "a", "l", "\"", " ", "|", " ", "\"", "b", "e", "h", "a", "v", "i", "o", "r", "a", "l", "\"", ",", "\n">>
    \o <<" ", " ", " ", " ", " ", " ", "\"", "d", "i", "f", "f", "i", "c", "u", "l", "t", "y", "\"", ":", " ", "\"", "J", "u", "n", "i", "o", "r", "\"", " ", "|", " ", "\"", "M", "i", "d", "-", "L", "e", "v", "e", "l", "\"", " ", "|", " ", "\"", "S", "e", "n", "i", "o", "r", "\"", ",", "\n">>
    \o <<" ", " ", " ", " ", " ", " ", "\"", "s", "u", "g", "g", "e", "s", "t", "e", "d", "A", "n", "s", "w", "e", "r", "\"", ":", " ", "s", "t", "r", "i", "n", "g", ",", "\n">>
    \o <<" ", " ", " ", " ", " ", " ", "\"", "k", "e", "y", "T", "i", "p", "s", "\"", ":", " ", "s", "t", "r", "i", "n", "g", "[", "]", ",", "\n">>
    \o <<" ", " ", " ", " ", " ", " ", "\"", "k", "e", "y", "w", "o", "r", "d", "s", "\"", ":", " ", "s", "t", "r", "i", "n", "g", "[", "]", ",", "\n">>
    \o <<" ", " ", " ", " ", " ", " ", "\"", "c", "o", "d", "e", "E", "x", "a", "m", "p", "l", "e", "\"", "?", ":", " ", "s", "t", "r", "i", "n", "g", ",", "\n">>
    \o <<" ", " ", " ", " ", " ", " ", "\"", "b", "e", "h", "a", "v", "i", "o", "r", "a", "l", "S", "t", "r", "u", "c", "t", "u", "r", "e", "\"", "?", ":", " ", "s", "t", "r", "i", "n", "g", "[", "]", ",", "\n">>
    \o <<" ", " ", " ", " ", " ", " ", "\"", "r", "e", "f", "e", "r", "e", "n", "c", "e", "U", "r", "l", "\"", "?", ":", " ", "s", "t", "r", "i", "n", "g", "\n">>
    \o <<" ", " ", " ", " ", "}", "\n">>
    \o <<" ", " ", "]", "\n">>
    \o <<"}", "\n">>
    \o <<"G", "u", "i", "d", "a", "n", "c", "e", ":", "\n">>
    \o <<"-", " ", "M", "i", "x", " ", "t", "e", "c", "h", "n", "i", "c", "a", "l", " ", "a", "n", "d", " ", "b", "e", "h", "a", "v", "i", "o", "r", "a", "l", " ", "p", "r", "o", "m", "p", "t", "s", ".", "\n">>
    \o <<"-", " ", "K", "e", "e", "p", " ", "s", "u", "g", "g", "e", "s", "t", "e", "d", "A", "n", "s", "w", "e", "r", " ", "c", "o", "n", "c", "i", "s", "e", " ", "(", "<", "=", " ", "1", "2", "0", " ", "w", "o", "r", "d", "s", ")", " ", "a", "n", "d", " ", "h", "i", "g", "h", "l", "i", "g", "h", "t", " ", "t", "h", "e", " ", "m", "o", "s", "t", " ", "i", "m", "p", "o", "r", "t", "a", "n", "t", " ", "i", "d", "e", "a", " ", "f", "i", "r", "s", "t", ".", "\n">>
    \o <<"-", " ", "P", "o", "p", "u", "l", "a", "t", "e", " ", "k", "e", "y", "T", "i", "p", "s", " ", "w", "i", "t", "h", " ", "2", "-", "4", " ", "s", "h", "o", "r", "t", " ", "a", "c", "t", "i", "o", "n", "a", "b", "l", "e", " ", "b", "u", "l", "l", "e", "t", "s", ".", "\n">>
    \o <<"-", " ", "F", "i", "l", "l", " ", "k", "e", "y", "w", "o", "r", "d", "s", " ", "w", "i", "t", "h", " ", "3", "-", "6", " ", "i", "m", "p", "o", "r", "t", "a", "n", "t", " ", "t", "e", "r", "m", "s", ";", " ", "h", "i", "g", "h", "l", "i", "g", "h", "t", " ", "a", "c", "r", "o", "n", "y", "m", "s", " ", "o", "r", " ", "t", "e", "c", "h", " ", "n", "a", "m", "e", "s", ".", "\n">>
    \o <<"-", " ", "P", "r", "o", "v", "i", "d", "e", " ", "c", "o", "d", "e", "E", "x", "a", "m", "p", "l", "e", " ", "o", "n", "l", "y", " ", "w", "h", "e", "n", " ", "t", "h", "e", " ", "q", "u", "e", "s", "t", "i", "o", "n", " ", "i", "s", " ", "t", "e", "c", "h", "n", "i", "c", "a", "l", " ", "a", "n", "d", " ", "b", "e", "n", "e", "f", "i", "t", "s", " ", "f", "r", "o", "m", " ", "a", " ", "s", "h", "o", "r", "t", " ", "s", "n", "i", "p", "p", "e", "t", " ", "(", "m", "a", "x", " ", "2", "5", " ", "l", "i", "n", "e", "s", ",", " ", "u", "s", "e", " ", Backtick, Backtick, Backtick, " ", "f", "e", "n", "c", "e", "s", " ", "i", "n", "s", "i", "d", "e", " ", "t", "h", "e", " ", "s", "t", "r", "i", "n", "g", " ", "i", "f", " ", "n", "e", "e", "d", "e", "d", ")", ".", "\n">>
    \o <<"-", " ", "P", "r", "o", "v", "i", "d", "e", " ", "b", "e", "h", "a", "v", "i", "o", "r", "a", "l", "S", "t", "r", "u", "c", "t", "u", "r", "e", " ", "o", "n", "l", "y", " ", "w", "h", "e", "n", " ", "t", "h", "e", " ", "q", "u", "e", "s", "t", "i", "o", "n", " ", "i", "s", " ", "b", "e", "h", "a", "v", "i", "o", "r", "a", "l", ",", " ", "f", "o", "l", "l", "o", "w", "i", "n", "g", " ", "S", "T", "A", "R", " ", "(", "S", "i", "t", "u", "a", "t", "i", "o", "n", ",", " ", "T", "a", "s", "k", ",", " ", "A", "c", "t", "i", "o", "n", ",", " ", "R", "e", "s", "u", "l", "t", ")", " ", "o", "r", " ", "s", "i", "m", "i", "l", "a", "r", " ", "f", "r", "a", "m", "e", "w", "o", "r", "k", "s", ".", "\n">>
    \o <<"-", " ", "I", "n", "c", "l", "u", "d", "e", " ", "a", " ", "c", "r", "e", "d", "i", "b", "l", "e", " ", "r", "e", "f", "e", "r", "e", "n", "c", "e", "U", "r", "l", " ", "f", "o", "r", " ", "d", "e", "e", "p", "e", "r", " ", "l", "e", "a", "r", "n", "i", "n", "g", " ", "w", "h", "e", "n", " ", "r", "e", "l", "e", "v", "a", "n", "t", ".", "\n">>
    \o <<"-", " ", "D", "e", "f", "a", "u", "l", "t", " ", "d", "i", "f", "f", "i", "c", "u", "l", "t", "y", " ", "t", "o", " ", "\"">>

\* lines 105-106 of the template
PromptTail ==
    <<"\"", " ", "i", "f", " ", "u", "n", "s", "u", "r", "e", ".", "\n">>
    \o <<"E", "n", "s", "u", "r", "e", " ", "t", "h", "e", " ", "r", "e", "s", "p", "o", "n", "s", "e", " ", "i", "s", " ", "v", "a", "l", "i", "d", " ", "J", "S", "O", "N", ",", " ", "n", "o", " ", "M", "a", "r", "k", "d", "o", "w", "n", " ", "f", "e", "n", "c", "e", "s", ",", " ", "n", "o", " ", "t", "r", "a", "i", "l", "i", "n", "g", " ", "c", "o", "m", "m", "a", "s", ".">>

\* the template literal of lines 79-106
PromptFor(safeTitle, safeExperience) ==
    PromptHead \o safeExperience \o <<" ">> \o safeTitle \o PromptBody
    \o safeExperience \o PromptTail

\* buildPrompt without the fallbacks of lines 76-77
buildPromptWithoutFallbacks(title, level) == PromptFor(trim(title), trim(level))

buildPrompt(title, level) ==
    PromptFor(TrimmedOr(title, <<"s", "o", "f", "t", "w", "a", "r", "e", " ", "e", "n", "g", "i", "n", "e", "e", "r">>), TrimmedOr(level, <<"m", "i", "d", "-", "l", "e", "v", "e", "l">>))

(***************************************************************************)
(* The form (App.tsx): its state, the calls in flight, and its handlers.   *)
(***************************************************************************)
VARIABLES
    jobTitle,     \* useState('')
    experience,   \* useState('Mid-Level')
    questions,    \* useState([]): the result list
    loading,      \* useState(false)
    error,        \* useState(null): Null or a message
    copyStatus,   \* useState('idle'): "idle", "copied" or "error"
    env,          \* import.meta.env: [apiKey, model, apiVersion], fixed at build time
    requests,     \* the calls of generateInterviewQuestions that have not settled
    settled,      \* how the last submission settled, and whether a list was shown then
    copies,       \* clipboard writes that have not settled
    timers,       \* pending setTimeout callbacks of handleCopyAll
    written,      \* the text of the last navigator.clipboard.writeText call
    cleared,      \* whether handleClear has run since the last handleSubmit began
    fnPc,         \* the position of the function-level run
    fnInput,      \* its input: [kind, items]
    fnRaw,        \* the text the input renders to
    fnCards,      \* normalizeQuestions(fnRaw, FnExperience)
    fnResult,     \* what generateInterviewQuestions settles with for that text
    fnClean,      \* cleanQuestionText(fnRaw)
    fnReclean,    \* cleanQuestionText(fnClean)
    fnPrompt      \* buildPrompt of the two texts of a "prompt" input

appVars == <<jobTitle, experience, questions, loading, error, copyStatus, env,
             requests, settled, copies, timers, written, cleared>>

fnVars == <<fnPc, fnInput, fnRaw, fnCards, fnResult, fnClean, fnReclean, fnPrompt>>

vars == <<appVars, fnVars>>

API_ERROR_MESSAGE == "Something went wrong. Please try again later."

EMPTY_RESULT_MESSAGE == "No questions found. Try a different title."

\* error === null
Null == "null"

\* the calls in flight the model follows at most (the code sets no limit)
MaxRequests == 2

\* the clipboard writes and copy timers the model follows at most
MaxPendingCopies == 1

\* what the user types into the job title field
JobTitles == { <<>>, <<" ">>, <<"d", "e", "v">> }

\* the options of the experience select
ExperienceOptions == { <<"J", "u", "n", "i", "o", "r">>, <<"M", "i", "d", "-", "L", "e", "v", "e", "l">>, <<"S", "e", "n", "i", "o", "r">> }

Environments ==
    [ apiKey : { Unset, <<>>, <<"k", "e", "y">> },
      model : { Unset, <<" ">>, <<"g", "e", "m", "i", "n", "i", "-", "p", "r", "o">> },
      apiVersion : { Unset, <<" ">>, <<"v", "1", "b", "e", "t", "a">> } ]

StringPart(text) == [isString |-> TRUE, text |-> text]

Payload(parts) == [has |-> TRUE, candidates |-> <<parts>>]

\* the bodies a 2xx response carries in the model
SamplePayloads ==
    { [has |-> FALSE, candidates |-> <<>>],
      Payload(<<StringPart(<<" ", "\n">>)>>),
      Payload(<<StringPart(<<"1", ".", " ", "W", "h", "y", " ", "x", "\n", "2", ".", " ", "T", "e", "l", "l", " ", "m", "e", " ", "a", "b", "o", "u", "t", " ", "y", " ">>)>>),
      Payload(<<StringPart(<<"W", "h", "y", " ", "x", "?">>), StringPart(<<"H", "o", "w", " ", "y", "?">>)>>),
      Payload(<<StringPart(<<"{", "\"", "q", "u", "e", "s", "t", "i", "o", "n", "s", "\"", ":", "[", "{", "\"", "q", "u", "e", "s", "t", "i", "o", "n", "\"", ":", "\"", "W", "h", "y", " ", "x", "?", "\"", ",", "\"", "d", "i", "f", "f", "i", "c", "u", "l", "t", "y", "\"", ":", "\"", "J", "u", "n", "i", "o", "r", "\"", "}", "]", "}">>)>>) }

Responses ==
    { [kind |-> k, payload |-> [has |-> FALSE, candidates |-> <<>>]] :
        k \in {"network-error", "http-error", "bad-body"} }
    \cup { [kind |-> "ok", payload |-> p] : p \in SamplePayloads }

\* afterFetch, tabulated over the responses and experience levels of the model
AfterFetchTable == [r \in Responses, e \in ExperienceOptions |-> afterFetch(r, e)]

hasQuestions == Len(questions) > 0

\* line 18 without its loading disjunct
isGenerateDisabledIgnoringLoading == Len(trim(jobTitle)) = 0

isGenerateDisabled == Len(trim(jobTitle)) = 0 \/ loading

\* the Clear button: disabled={loading && !hasQuestions}
isClearDisabled == loading /\ ~hasQuestions

\* a call that has thrown and whose catch block runs before any other event
MicrotaskPending == \E i \in 1..Len(requests) : requests[i].stage = "rejected"

RemoveAt(seq, i) == SubSeq(seq, 1, i - 1) \o SubSeq(seq, i + 1, Len(seq))

\* the form as it is first rendered
AppStart ==
    /\ jobTitle = <<>>
    /\ experience = <<"M", "i", "d", "-", "L", "e", "v", "e", "l">>
    /\ questions = <<>>
    /\ loading = FALSE
    /\ error = Null
    /\ copyStatus = "idle"
    /\ requests = <<>>
    /\ settled = [outcome |-> "none", stale |-> FALSE]
    /\ copies = 0
    /\ timers = 0
    /\ written = <<>>
    /\ cleared = FALSE

AppInit == AppStart /\ env \in Environments

\* onChange of the job title input
SetJobTitle(value) ==
    /\ ~MicrotaskPending
    /\ jobTitle' = value
    /\ UNCHANGED <<experience, questions, loading, error, copyStatus, env, requests,
                   settled, copies, timers, written, cleared, fnVars>>

\* onChange of the experience select
SetExperience(value) ==
    /\ ~MicrotaskPending
    /\ experience' = value
    /\ UNCHANGED <<jobTitle, questions, loading, error, copyStatus, env, requests,
                   settled, copies, timers, written, cleared, fnVars>>

\* handleSubmit up to the await without the setError(null) of line 28
SubmitKeepingError ==
    /\ ~MicrotaskPending
    /\ ~isGenerateDisabled
    /\ Len(trim(jobTitle)) # 0
    /\ Len(requests) < MaxRequests
    /\ loading' = TRUE
    /\ copyStatus' = "idle"
    /\ requests' = Append(requests,
                          [experience |-> experience,
                           stage |-> IF configError(env) # "none"
                                     THEN "rejected" ELSE "fetching"])
    /\ cleared' = FALSE
    /\ UNCHANGED <<jobTitle, experience, questions, error, env, settled, copies,
                   timers, written, fnVars>>

\* handleSubmit up to the await: the form submits only through its enabled
\* submit button; the call runs to its configuration error or to its fetch
Submit ==
    /\ ~MicrotaskPending
    /\ ~isGenerateDisabled
    /\ Len(trim(jobTitle)) # 0
    /\ Len(requests) < MaxRequests
    /\ loading' = TRUE
    /\ error' = Null
    /\ copyStatus' = "idle"
    /\ requests' = Append(requests,
                          [experience |-> experience,
                           stage |-> IF configError(env) # "none"
                                     THEN "rejected" ELSE "fetching"])
    /\ cleared' = FALSE
    /\ UNCHANGED <<jobTitle, experience, questions, env, settled, copies, timers, written, fnVars>>

\* lines 37-50 without the setQuestions([]) of the catch block (line 46)
onSettledKeepingList(result, shown) ==
    IF result.kind = "return"
    THEN IF Len(result.cards) = 0
         THEN [questions |-> <<>>, error |-> EMPTY_RESULT_MESSAGE]
         ELSE [questions |-> result.cards, error |-> shown.error]
    ELSE [questions |-> shown.questions, error |-> API_ERROR_MESSAGE]

\* handleSubmit after the await (lines 37-50, without the finally): the result
\* list and the error once the call has settled with result
onSettled(result, shown) ==
    IF result.kind = "return"
    THEN IF Len(result.cards) = 0
         THEN [questions |-> <<>>, error |-> EMPTY_RESULT_MESSAGE]
         ELSE [questions |-> result.cards, error |-> shown.error]
    ELSE [questions |-> <<>>, error |-> API_ERROR_MESSAGE]

\* the i-th call settles without the finally block of lines 48-50
CompleteWithoutFinally(i, result) ==
    LET next == onSettled(result, [questions |-> questions, error |-> error])
    IN  /\ questions' = next.questions
        /\ error' = next.error
        /\ loading' = loading
        /\ requests' = RemoveAt(requests, i)
        /\ settled' = [outcome |-> IF result.kind = "return" THEN "returned"
                                   ELSE result.error,
                       stale |-> hasQuestions]
        /\ UNCHANGED <<jobTitle, experience, copyStatus, env, copies, timers, written, cleared, fnVars>>

\* the i-th call settles with result: try/catch/finally of handleSubmit
Complete(i, result) ==
    LET next == onSettled(result, [questions |-> questions, error |-> error])
    IN  /\ questions' = next.questions
        /\ error' = next.error
        /\ loading' = FALSE
        /\ requests' = RemoveAt(requests, i)
        /\ settled' = [outcome |-> IF result.kind = "return" THEN "returned"
                                   ELSE result.error,
                       stale |-> hasQuestions]
        /\ UNCHANGED <<jobTitle, experience, copyStatus, env, copies, timers, written, cleared, fnVars>>

\* the call threw a configuration error before fetch
ConfigErrorSettles ==
    \E i \in 1..Len(requests) :
        /\ requests[i].stage = "rejected"
        /\ Complete(i, Throws(configError(env)))

\* fetch settles, and with it the call
FetchSettles ==
    \E i \in 1..Len(requests) : \E response \in Responses :
        /\ ~MicrotaskPending
        /\ requests[i].stage = "fetching"
        /\ Complete(i, AfterFetchTable[response, requests[i].experience])

handleClear ==
    /\ ~MicrotaskPending
    /\ ~isClearDisabled
    /\ jobTitle' = <<>>
    /\ experience' = <<"M", "i", "d", "-", "L", "e", "v", "e", "l">>
    /\ questions' = <<>>
    /\ error' = Null
    /\ copyStatus' = "idle"
    /\ cleared' = TRUE
    /\ UNCHANGED <<loading, env, requests, settled, copies, timers, written, fnVars>>

\* `${question}` for an element of the list: the elements are the card
\* objects generateInterviewQuestions returned, and String(object) of a
\* plain object is '[object Object]'
TemplateString(card) == <<"[", "o", "b", "j", "e", "c", "t", " ", "O", "b", "j", "e", "c", "t", "]">>

\* line 57: questions.map((question, index) => `${index + 1}. ${question}`)
NumberedLines(list) ==
    [i \in 1..Len(list) |-> DecimalDigits(i) \o <<".", " ">> \o TemplateString(list[i])]

\* line 57: the argument of navigator.clipboard.writeText
clipboardText(list) == Join(NumberedLines(list), <<"\n">>, 1)

\* handleCopyAll up to the await
CopyAll ==
    /\ ~MicrotaskPending
    /\ hasQuestions
    /\ copies + timers < MaxPendingCopies
    /\ copies' = copies + 1
    /\ written' = clipboardText(questions)
    /\ UNCHANGED <<jobTitle, experience, questions, loading, error, copyStatus, env,
                   requests, settled, timers, cleared, fnVars>>

\* writeText resolved: setCopyStatus('copied') and the 1500 ms timer
ClipboardResolves ==
    /\ ~MicrotaskPending
    /\ copies > 0
    /\ copies' = copies - 1
    /\ copyStatus' = "copied"
    /\ timers' = timers + 1
    /\ UNCHANGED <<jobTitle, experience, questions, loading, error, env, requests,
                   settled, written, cleared, fnVars>>

\* the catch block of handleCopyAll doing what the catch block of
\* handleSubmit does: an error message and an empty list
ClipboardRejectsAsSubmit ==
    /\ ~MicrotaskPending
    /\ copies > 0
    /\ copies' = copies - 1
    /\ copyStatus' = "error"
    /\ error' = API_ERROR_MESSAGE
    /\ questions' = <<>>
    /\ UNCHANGED <<jobTitle, experience, loading, env, requests, settled, timers,
                   written, cleared, fnVars>>

\* writeText rejected: setCopyStatus('error')
ClipboardRejects ==
    /\ ~MicrotaskPending
    /\ copies > 0
    /\ copies' = copies - 1
    /\ copyStatus' = "error"
    /\ UNCHANGED <<jobTitle, experience, questions, loading, error, env, requests,
                   settled, timers, written, cleared, fnVars>>

\* the timer of handleCopyAll fires: setCopyStatus('idle')
CopyTimeout ==
    /\ ~MicrotaskPending
    /\ timers > 0
    /\ timers' = timers - 1
    /\ copyStatus' = "idle"
    /\ UNCHANGED <<jobTitle, experience, questions, loading, error, env, requests,
                   settled, copies, written, cleared, fnVars>>

FnIdle ==
    /\ fnPc = "off"
    /\ fnInput = [kind |-> "none", items |-> <<>>]
    /\ fnRaw = <<>>
    /\ fnCards = <<>>
    /\ fnResult = [kind |-> "none"]
    /\ fnClean = <<>>
    /\ fnReclean = <<>>
    /\ fnPrompt = <<>>

Init == AppInit /\ FnIdle

Next ==
    \/ \E value \in JobTitles : SetJobTitle(value)
    \/ \E value \in ExperienceOptions : SetExperience(value)
    \/ Submit
    \/ ConfigErrorSettles
    \/ FetchSettles
    \/ handleClear
    \/ CopyAll
    \/ ClipboardResolves
    \/ ClipboardRejects
    \/ CopyTimeout

Spec == Init /\ [][Next]_vars

\* the form when every call of generateInterviewQuestions settles: the
\* promise of a call that threw before fetch rejects in the next microtask,
\* and fetch resolves or rejects
FairSpec ==
    /\ Init
    /\ [][Next]_vars
    /\ WF_vars(ConfigErrorSettles)
    /\ WF_vars(FetchSettles)

(***************************************************************************)
(* The text pipeline on its own: a raw response text is drawn from         *)
(* bounded families, normalizeQuestions and lines 68-72 of                 *)
(* generateInterviewQuestions are applied to it, and cleanQuestionText is  *)
(* applied to it once and then to its own output.                          *)
(***************************************************************************)
\* the pieces a free-form response is put together from, at most
MaxTokens == 3

\* the items of a JSON array, of a "questions" array or of a numbered list, at most
MaxItems == 6

Tokens == { <<" ">>, <<"\n">>, <<"1", ".", " ">>, <<"W", "h", "y", " ", "x">>, <<"?">>, <<"-", " ">> }

ArrayQuestions == { <<"W", "h", "a", "t", " ", "i", "s", " ", "a", " ", "c", "l", "o", "s", "u", "r", "e", "?">>, <<"E", "x", "p", "l", "a", "i", "n", " ", "e", "v", "e", "n", "t", " ", "l", "o", "o", "p", "s", "?">> }

ObjectItems == { <<"{", "\"", "q", "u", "e", "s", "t", "i", "o", "n", "\"", ":", "\"", "W", "h", "y", " ", "x", "?", "\"", "}">>, <<"{", "\"", "q", "u", "e", "s", "t", "i", "o", "n", "\"", ":", "\"", " ", "\"", "}">> }

ListItems == { <<"W", "h", "y", " ", "x">>, <<"A", "s", " ", "a", " ", "d", "e", "v", ",", " ", "w", "h", "y", " ", "y", "?">> }

\* responses of other shapes: prose around a JSON object, an item whose
\* suggestedAnswer is not a string, strings in the questions array, a
\* truncated object, bullets, sentences, a fenced block, metadata labels,
\* sentences too short to be kept, behavioral phrases, an object without questions,
\* supplied keywords, a question that repeats a word
SampleTexts ==
    { <<"H", "e", "r", "e", " ", "i", "t", " ", "i", "s", ":", " ", "{", "\"", "q", "u", "e", "s", "t", "i", "o", "n", "s", "\"", ":", "[", "{", "\"", "q", "u", "e", "s", "t", "i", "o", "n", "\"", ":", "\"", "W", "h", "y", " ", "x", "?", "\"", ",", "\"", "t", "y", "p", "e", "\"", ":", "\"", "b", "e", "h", "a", "v", "i", "o", "r", "a", "l", "\"", ",", "\"", "d", "i", "f", "f", "i", "c", "u", "l", "t", "y", "\"", ":", "\"", "j", "u", "n", "i", "o", "r", "\"", "}", "]", "}", " ", "E", "n", "j", "o", "y">>,
      <<"{", "\"", "q", "u", "e", "s", "t", "i", "o", "n", "s", "\"", ":", "[", "{", "\"", "q", "u", "e", "s", "t", "i", "o", "n", "\"", ":", "\"", "W", "h", "y", " ", "x", "?", "\"", ",", "\"", "s", "u", "g", "g", "e", "s", "t", "e", "d", "A", "n", "s", "w", "e", "r", "\"", ":", "1", "}", "]", "}">>,
      <<"{", "\"", "q", "u", "e", "s", "t", "i", "o", "n", "s", "\"", ":", "[", "\"", "W", "h", "y", " ", "x", "?", "\"", "]", "}">>,
      <<"{", "\"", "q", "u", "e", "s", "t", "i", "o", "n", "s", "\"", ":", "[", "{", "\"", "q", "u", "e", "s", "t", "i", "o", "n", "\"", ":", "\"", "W", "h", "y", " ", "x", "?", "\"", "}">>,
      <<"-", " ", "T", "e", "l", "l", " ", "m", "e", " ", "a", "b", "o", "u", "t", " ", "a", " ", "c", "o", "n", "f", "l", "i", "c", "t", "\n", "-", " ", "H", "o", "w", " ", "d", "o", " ", "y", "o", "u", " ", "d", "e", "b", "u", "g", " ", "l", "e", "a", "k", "s">>,
      <<"W", "h", "a", "t", " ", "i", "s", " ", "t", "h", "e", " ", "p", "l", "a", "n", "?", " ", "T", "e", "l", "l", " ", "m", "e", " ", "a", "b", "o", "u", "t", " ", "t", "h", "e", " ", "t", "e", "a", "m", ".">>,
      <<"1", ".", " ", Backtick, Backtick, Backtick, "x", Backtick, Backtick, Backtick>>,
      <<"W", "h", "y", " ", "x", "?", " ", "T", "y", "p", "e", ":", " ", "t", "e", "c", "h", "n", "i", "c", "a", "l">>,
      <<"P", "l", "a", "n", " ", "i", "t", ".", " ", "S", "h", "i", "p", " ", "i", "t", ".", " ", "O", "k">>,
      <<"{", "\"", "q", "u", "e", "s", "t", "i", "o", "n", "s", "\"", ":", "[", "{", "\"", "q", "u", "e", "s", "t", "i", "o", "n", "\"", ":", "\"", "T", "e", "l", "l", " ", "m", "e", " ", "a", "b", "o", "u", "t", " ", "y", "\"", "}", "]", "}">>,
      <<"1", ".", " ", "W", "h", "y", " ", "x", "?", " ", "T", "e", "l", "l", " ", "m", "e", " ", "a", "b", "o", "u", "t", " ", "y">>,
      <<"{", "\"", "n", "o", "t", "e", "\"", ":", "\"", "n", "o", "n", "e", "\"", "}", " ", "W", "h", "y", " ", "i", "s", " ", "t", "h", "e", " ", "p", "l", "a", "n", " ", "x", "?">>,
      <<"{", "\"", "q", "u", "e", "s", "t", "i", "o", "n", "s", "\"", ":", "[", "{", "\"", "q", "u", "e", "s", "t", "i", "o", "n", "\"", ":", "\"", "W", "h", "y", " ", "x", "?", "\"", ",", "\"", "k", "e", "y", "w", "o", "r", "d", "s", "\"", ":", "[", "\"", "R", "e", "a", "c", "t", "\"", ",", "\"", " ", "r", "e", "a", "c", "t", "\"", ",", " ", "n", "u", "l", "l", "]", "}", "]", "}">>,
      <<"1", ".", " ", "W", "h", "y", " ", "u", "s", "e", " ", "R", "e", "a", "c", "t", " ", "i", "f", " ", "r", "e", "a", "c", "t", " ", "i", "s", " ", "s", "l", "o", "w", ",", " ", "a", "n", "d", " ", "w", "h", "y", " ", "n", "o", "t", " ", "V", "u", "e", ",", " ", "E", "l", "m", " ", "o", "r", " ", "S", "v", "e", "l", "t", "e">> }

\* the job titles and experience levels buildPrompt is called with
PromptTitles == { <<>>, <<" ">>, <<"d", "e", "v">>, <<" ", "Q", "A", " ", "l", "e", "a", "d", " ">>, <<"C", "+", "+", " ", "\"", "d", "e", "v", "\"">> }

PromptLevels == { <<>>, <<"\n", " ">>, <<"S", "e", "n", "i", "o", "r">>, <<" ", "M", "i", "d", "-", "L", "e", "v", "e", "l", " ">> }

\* the experience levels generateInterviewQuestions is called with in the
\* runs that follow the difficulty, and the responses of these runs
LevelTexts ==
    { <<>>, <<"J", "u", "n", "i", "o", "r">>, <<"e", "n", "t", "r", "y", "-", "l", "e", "v", "e", "l">>, <<"S", "E", "N", "I", "O", "R">>, <<"T", "e", "c", "h", " ", "L", "e", "a", "d">>, <<"M", "i", "d", "-", "L", "e", "v", "e", "l">>, <<"i", "n", "t", "e", "r", "n">>,
      <<" ", "j", "u", "n", "i", "o", "r", " ", "l", "e", "a", "d", " ">> }

LevelledTexts ==
    { <<"{", "\"", "q", "u", "e", "s", "t", "i", "o", "n", "s", "\"", ":", "[", "{", "\"", "q", "u", "e", "s", "t", "i", "o", "n", "\"", ":", "\"", "W", "h", "y", " ", "x", "?", "\"", ",", "\"", "d", "i", "f", "f", "i", "c", "u", "l", "t", "y", "\"", ":", "\"", "M", "i", "d", "-", "L", "e", "v", "e", "l", "\"", "}", ",", "{", "\"", "q", "u", "e", "s", "t", "i", "o", "n", "\"", ":", "\"", "W", "h", "y", " ", "y", "?", "\"", ",", "\"", "d", "i", "f", "f", "i", "c", "u", "l", "t", "y", "\"", ":", "\"", "j", "u", "n", "i", "o", "r", "\"", "}", ",", "{", "\"", "q", "u", "e", "s", "t", "i", "o", "n", "\"", ":", "\"", "W", "h", "y", " ", "z", "?", "\"", "}", "]", "}">>,
      <<"1", ".", " ", "W", "h", "y", " ", "x", "\n", "2", ".", " ", "T", "e", "l", "l", " ", "m", "e", " ", "a", "b", "o", "u", "t", " ", "y">> }

\* the level generateInterviewQuestions is called with in the other runs
FnExperience == <<"S", "e", "n", "i", "o", "r">>

SeqsUpTo(S, n) == UNION { [1..k -> S] : k \in 0..n }

FnInputs ==
    { [kind |-> "tokens", items |-> q] : q \in SeqsUpTo(Tokens, MaxTokens) }
    \cup { [kind |-> "jsonArray", items |-> q] :
             q \in SeqsUpTo(ArrayQuestions, MaxItems) \ { <<>> } }
    \cup { [kind |-> "jsonObject", items |-> q] :
             q \in SeqsUpTo(ObjectItems, MaxItems) \ { <<>> } }
    \cup { [kind |-> "numbered", items |-> q] :
             q \in SeqsUpTo(ListItems, MaxItems) \ { <<>> } }
    \cup { [kind |-> "text", items |-> <<t>>] : t \in SampleTexts }
    \cup { [kind |-> "prompt", items |-> <<title, level>>] :
             title \in PromptTitles, level \in PromptLevels }
    \cup { [kind |-> "levelled", items |-> <<t, level>>] :
             t \in LevelledTexts, level \in LevelTexts }

Quoted(items) == [i \in 1..Len(items) |-> <<"\"">> \o items[i] \o <<"\"">>]

Numbered(items) == [i \in 1..Len(items) |-> DecimalDigits(i) \o <<".", " ">> \o items[i]]

\* the response text an input stands for
Render(input) ==
    IF input.kind = "jsonArray"
    THEN <<"[">> \o Join(Quoted(input.items), <<",">>, 1) \o <<"]">>
    ELSE IF input.kind = "jsonObject"
    THEN <<"{", "\"", "q", "u", "e", "s", "t", "i", "o", "n", "s", "\"", ":", "[">> \o Join(input.items, <<",">>, 1) \o <<"]", "}">>
    ELSE IF input.kind = "numbered"
    THEN Join(Numbered(input.items), <<"\n">>, 1)
    ELSE IF input.kind = "prompt"
    THEN <<>>
    ELSE IF input.kind = "levelled"
    THEN input.items[1]
    ELSE Join(input.items, <<>>, 1)

FnStart ==
    /\ fnPc = "input"
    /\ fnInput \in FnInputs
    /\ fnRaw = Render(fnInput)
    /\ fnCards = <<>>
    /\ fnResult = [kind |-> "none"]
    /\ fnClean = <<>>
    /\ fnReclean = <<>>
    /\ fnPrompt = <<>>

\* the form stays as first rendered while the pipeline runs on its own
FnInit ==
    /\ AppStart
    /\ env = [apiKey |-> <<"k", "e", "y">>, model |-> Unset, apiVersion |-> Unset]
    /\ FnStart

\* line 66: const structuredQuestions = normalizeQuestions(text, experience)
CallNormalize ==
    /\ fnPc = "input"
    /\ fnInput.kind \notin {"prompt", "levelled"}
    /\ fnCards' = normalizeQuestions(fnRaw, FnExperience)
    /\ fnPc' = "normalized"
    /\ UNCHANGED <<fnInput, fnRaw, fnResult, fnClean, fnReclean, fnPrompt, appVars>>

\* lines 68-72: the throw on an empty list, or the return of the first five
CallReturn ==
    /\ fnPc = "normalized"
    /\ fnResult' = returnQuestions(fnCards)
    /\ fnPc' = "settled"
    /\ UNCHANGED <<fnInput, fnRaw, fnCards, fnClean, fnReclean, fnPrompt, appVars>>

\* cleanQuestionText applied to the text
CallClean ==
    /\ fnPc = "input"
    /\ fnInput.kind \notin {"prompt", "levelled"}
    /\ fnClean' = cleanQuestionText(fnRaw)
    /\ fnPc' = "cleaned"
    /\ UNCHANGED <<fnInput, fnRaw, fnCards, fnResult, fnReclean, fnPrompt, appVars>>

\* cleanQuestionText applied to its own output
CallCleanAgain ==
    /\ fnPc = "cleaned"
    /\ fnReclean' = cleanQuestionText(fnClean)
    /\ fnPc' = "recleaned"
    /\ UNCHANGED <<fnInput, fnRaw, fnCards, fnResult, fnClean, fnPrompt, appVars>>

\* line 43: const prompt = buildPrompt(jobTitle, experience)
CallBuildPrompt ==
    /\ fnPc = "input"
    /\ fnInput.kind = "prompt"
    /\ fnPrompt' = buildPrompt(fnInput.items[1], fnInput.items[2])
    /\ fnPc' = "prompted"
    /\ UNCHANGED <<fnInput, fnRaw, fnCards, fnResult, fnClean, fnReclean, appVars>>

\* line 66 for a call with the experience level of the input
CallNormalizeLevelled ==
    /\ fnPc = "input"
    /\ fnInput.kind = "levelled"
    /\ fnCards' = normalizeQuestions(fnRaw, fnInput.items[2])
    /\ fnPc' = "levelled"
    /\ UNCHANGED <<fnInput, fnRaw, fnResult, fnClean, fnReclean, fnPrompt, appVars>>

FnNext ==
    \/ CallBuildPrompt
    \/ CallNormalizeLevelled
    \/ CallNormalize
    \/ CallReturn
    \/ CallClean
    \/ CallCleanAgain

FnSpec == FnInit /\ [][FnNext]_vars

(***************************************************************************)
(* Properties of generateInterviewQuestions and of the form.               *)
(***************************************************************************)
\* a submission settles in this step
Completes == Len(requests') < Len(requests)

\* a submission starts in this step
Starts == Len(requests') > Len(requests)

\* the ways a submission fails
Failures ==
    { "missing-key", "missing-model", "missing-version", "network-error",
      "request-failed", "bad-body", "empty-response" }

\* C1: every successful return of generateInterviewQuestions carries between
\* 1 and 5 records, and a list of 0 records is never returned as success but
\* raises the empty-response error
C1_ReturnsOneToFive ==
    fnPc = "settled" =>
        /\ fnResult.kind \in {"return", "throw"}
        /\ fnResult.kind = "return" =>
               Len(fnResult.cards) >= 1 /\ Len(fnResult.cards) <= MaxQuestions
        /\ Len(fnCards) = 0 => fnResult = Throws("empty-response")

\* normalizeQuestions produced more than five records and five were returned
C1_Truncated ==
    /\ fnPc = "settled"
    /\ Len(fnCards) > MaxQuestions
    /\ fnResult.kind = "return"
    /\ fnResult.cards = SubSeq(fnCards, 1, MaxQuestions)

\* C2: a submission that ends because nothing usable was extracted leaves
\* the empty-result message in the error state, not the generic message
C2_EmptyResultMessage ==
    [][(Completes /\ settled'.outcome = "empty-response")
           => error' = EMPTY_RESULT_MESSAGE]_vars

\* C3: at most one request is in flight in every reachable state, and a
\* request starts only when loading is false and none is in flight
C3_OneRequestInFlight ==
    /\ [](Len(requests) <= 1)
    /\ [][Starts => (~loading /\ Len(requests) = 0)]_vars

\* a request is in flight while the title is filled in and a list is shown:
\* only the loading flag keeps the form from submitting again
C3_InFlight ==
    /\ Len(requests) = 1
    /\ loading
    /\ Len(trim(jobTitle)) > 0
    /\ hasQuestions

\* what the form displays
ListShown == hasQuestions

IndicatorShown == loading /\ ~hasQuestions

ErrorShown == error # Null

\* C4 as stated: exactly one of the result list (questions non-empty), the
\* loading indicator (loading true) and an error message (error non-null)
\* holds in every reachable state
C4_ExactlyOne ==
    /\ hasQuestions \/ loading \/ error # Null
    /\ ~(hasQuestions /\ loading)
    /\ ~(hasQuestions /\ error # Null)
    /\ ~(loading /\ error # Null)

\* C4 amended: at most one of the result list, the loading indicator (drawn
\* only while the list is empty) and the error message is displayed; an error
\* holds together with neither a list nor loading; before the first
\* submission nothing is displayed
C4_AtMostOne ==
    /\ ~(ListShown /\ IndicatorShown)
    /\ ErrorShown => (~hasQuestions /\ ~loading)
    /\ (settled.outcome = "none" /\ Len(requests) = 0)
           => (~ListShown /\ ~IndicatorShown /\ ~ErrorShown)

\* a second submission is in flight while the list of the first is displayed
C4_ListWhileLoading ==
    /\ loading
    /\ hasQuestions
    /\ error = Null
    /\ settled.outcome = "returned"

\* C5: when a submission fails (configuration error, non-2xx response,
\* transport exception, empty result), the state after it completes has an
\* empty question list and a non-null error, whatever list was there before
C5_FailureClears ==
    [][(Completes /\ settled'.outcome \in Failures)
           => (questions' = <<>> /\ error' # Null /\ ~loading')]_vars

\* a submission has just failed while the list of an earlier one was displayed
C5_FailedOverList ==
    /\ settled.outcome \in Failures
    /\ settled.stale
    /\ questions = <<>>
    /\ error = API_ERROR_MESSAGE
    /\ ~loading

\* the text holds nothing but whitespace
IsBlank(text) == \A i \in 1..Len(text) : IsSpace(text[i])

\* C6: for a raw response that is empty or only whitespace, normalization
\* produces no records and generateInterviewQuestions raises the
\* empty-response error; no list is returned
C6_BlankIsEmptyResult ==
    IsBlank(fnRaw) =>
        /\ fnPc = "normalized" => fnCards = <<>>
        /\ fnPc = "settled" => (fnCards = <<>> /\ fnResult = Throws("empty-response"))

\* a response of whitespace has been normalized and the call has thrown
C6_BlankSettled ==
    /\ fnPc = "settled"
    /\ Len(fnRaw) > 0
    /\ IsBlank(fnRaw)
    /\ fnResult.kind = "throw"

Min(a, b) == IF a <= b THEN a ELSE b

\* C7: for a raw input that is a JSON array of n >= 1 question strings the
\* normalizer returns exactly min(5, n) records, the i-th record's question
\* being the i-th element sanitized and ending in '?'
C7_JsonArrayOfStrings ==
    (fnPc = "normalized" /\ fnInput.kind = "jsonArray") =>
        /\ Len(fnCards) = Min(MaxQuestions, Len(fnInput.items))
        /\ \A i \in 1..Len(fnCards) :
               /\ fnCards[i].question = cleanQuestionText(fnInput.items[i])
               /\ EndsWithChar(fnCards[i].question, "?")

\* the text begins with an ordinal marker: digits and a period
HasOrdinalMarker(text) ==
    /\ SkipDigits(text, 1) > 1
    /\ SkipDigits(text, 1) <= Len(text)
    /\ text[SkipDigits(text, 1)] = "."

\* C8: for a raw input that does not parse as JSON and holds k >= 1
\* numbered-list items the normalizer returns exactly min(5, k) records, one
\* per item in order, none beginning with an ordinal marker
C8_NumberedList ==
    (fnPc = "normalized" /\ fnInput.kind = "numbered" /\ ~JSONParse(fnRaw).ok) =>
        /\ Len(fnCards) = Min(MaxQuestions, Len(fnInput.items))
        /\ \A i \in 1..Len(fnCards) :
               /\ fnCards[i].question = cleanQuestionText(fnInput.items[i])
               /\ ~HasOrdinalMarker(fnCards[i].question)

\* C9: the question of every record the normalizer returns is a non-empty
\* string that ends in exactly one '?'
C9_QuestionEndsInOneMark ==
    fnPc = "normalized" =>
        \A i \in 1..Len(fnCards) :
            /\ Len(fnCards[i].question) > 0
            /\ EndsWithChar(fnCards[i].question, "?")
            /\ Len(fnCards[i].question) >= 2 =>
                   fnCards[i].question[Len(fnCards[i].question) - 1] # "?"

\* the string is trimmed and has a single trailing '?'
IsSanitized(q) ==
    /\ Len(q) > 0
    /\ ~IsSpace(q[1])
    /\ q[Len(q)] = "?"
    /\ Len(q) >= 2 => q[Len(q) - 1] # "?"

\* C10: cleanQuestionText returns a trimmed string with a single trailing
\* '?' unchanged, and applying it to its own output changes nothing
C10_CleanIsIdempotent ==
    /\ (fnPc = "cleaned" /\ IsSanitized(fnRaw)) => fnClean = fnRaw
    /\ fnPc = "recleaned" => fnReclean = fnClean

\* !apiKey: the key is not set or is the empty string
KeyMissing == env.apiKey = Unset \/ Len(env.apiKey) = 0

\* C11: if the API key is missing, the call raises the configuration error
\* and no fetch occurs in that submission: the call never reaches its fetch,
\* and it settles with the missing-key error
C11_NoFetchWithoutKey ==
    /\ [](KeyMissing => \A i \in 1..Len(requests) : requests[i].stage # "fetching")
    /\ [][(KeyMissing /\ Completes) => settled'.outcome = "missing-key"]_vars

\* a submission made without an API key has settled with the configuration error
C11_KeyErrorSettled ==
    /\ KeyMissing
    /\ settled.outcome = "missing-key"
    /\ Len(requests) = 0
    /\ error = API_ERROR_MESSAGE

\* one of the three configuration values is absent from the environment
AnyAbsent == env.apiKey = Unset \/ env.model = Unset \/ env.apiVersion = Unset

\* a value that is set, and is empty or only whitespace
SetBlank(value) == value # Unset /\ IsBlank(value)

\* C12 as stated: each of the API key, the model name and the API version
\* is required; if any one is absent the call raises a configuration error
\* before any fetch
C12_AllRequired ==
    AnyAbsent => \A i \in 1..Len(requests) : requests[i].stage # "fetching"

\* C12 amended: the API key is required; an absent model name or API
\* version is replaced by its default and raises nothing.  A call raises a
\* configuration error, before its fetch, exactly when the key is missing or
\* the model name or the API version is set to a blank value
C12_KeyRequiredOthersDefault ==
    \A i \in 1..Len(requests) :
        /\ requests[i].stage \in {"rejected", "fetching"}
        /\ requests[i].stage = "rejected" <=>
               (KeyMissing \/ SetBlank(env.model) \/ SetBlank(env.apiVersion))

\* a call has reached its fetch with the model name and the API version absent
C12_FetchWithDefaults ==
    /\ env.model = Unset
    /\ env.apiVersion = Unset
    /\ ~KeyMissing
    /\ \E i \in 1..Len(requests) : requests[i].stage = "fetching"

\* handleCopyAll calls writeText in this step
Copies == copies' = copies + 1

\* the question fields of the records of a list
QuestionFields(list) == [i \in 1..Len(list) |-> list[i].question]

\* the line is the prefix 'N. ' for N = i followed by the text
IsNumberedAs(line, i, text) == line = DecimalDigits(i) \o <<".", " ">> \o text

\* C13: the text copyAll writes to the clipboard, split on newlines and with
\* the leading 'i. ' removed from line i, is the sequence of the records'
\* question fields in their original order
C13_CopyRoundTrips ==
    [][Copies =>
          /\ Len(SplitRuns(written', IsNewline, 1)) = Len(questions)
          /\ \A i \in 1..Len(questions) :
                 IsNumberedAs(SplitRuns(written', IsNewline, 1)[i], i,
                              QuestionFields(questions)[i])]_vars

\* a step of handleCopyAll: the call of writeText, its resolution, its
\* rejection, or the timer set on resolution
CopyStep == copies' # copies \/ timers' # timers

\* the clipboard write fails in this step
CopyFails == copies' < copies /\ timers' = timers

\* C14: a copyAll action, whether the clipboard write succeeds or fails,
\* leaves the question list, the error, the loading flag and the form inputs
\* unchanged; on failure copyStatus becomes 'error'; with an empty question
\* list copyAll does nothing
C14_CopyLeavesTheRest ==
    /\ [][CopyStep => UNCHANGED <<questions, error, loading, jobTitle, experience>>]_vars
    /\ [][CopyFails => copyStatus' = "error"]_vars
    /\ [][Copies => hasQuestions]_vars

\* a clipboard write has failed while the list is displayed
C14_CopyFailed ==
    /\ copyStatus = "error"
    /\ hasQuestions
    /\ copies = 0
    /\ Len(written) > 0
    /\ error = Null

\* C15: buildPrompt returns a non-empty prompt that contains the trimmed
\* role and the trimmed experience level; when the trimmed role is empty the
\* prompt contains 'software engineer', and when the trimmed level is empty
\* it contains 'mid-level'
C15_PromptHoldsRoleAndLevel ==
    fnPc = "prompted" =>
        /\ Len(fnPrompt) > 0
        /\ Includes(fnPrompt, trim(fnInput.items[1]))
        /\ Includes(fnPrompt, trim(fnInput.items[2]))
        /\ IsBlank(fnInput.items[1]) => Includes(fnPrompt, <<"s", "o", "f", "t", "w", "a", "r", "e", " ", "e", "n", "g", "i", "n", "e", "e", "r">>)
        /\ IsBlank(fnInput.items[2]) => Includes(fnPrompt, <<"m", "i", "d", "-", "l", "e", "v", "e", "l">>)

\* a prompt has been built for a blank role and a level given with spaces
\* around it
C15_PromptedWithFallback ==
    /\ fnPc = "prompted"
    /\ fnInput.items[1] = <<" ">>
    /\ fnInput.items[2] = <<" ", "M", "i", "d", "-", "L", "e", "v", "e", "l", " ">>
    /\ Includes(fnPrompt, <<"f", "o", "r", " ", "a", " ", "M", "i", "d", "-", "L", "e", "v", "e", "l", " ", "s", "o", "f", "t", "w", "a", "r", "e", " ", "e", "n", "g", "i", "n", "e", "e", "r", " ", "c", "a", "n", "d", "i", "d", "a", "t", "e", ".">>)

\* what each stage extracts from raw when it is applied on its own
JsonStage(raw) ==
    IF Len(extractJsonBlock(raw)) > 0 THEN JsonStageCards(extractJsonBlock(raw), FnExperience)
    ELSE <<>>

ContextualStage(raw) == TrimAll(ContextualMatches(raw, toLowerCase(raw), 1))

NumberedStage(raw) == SelectFrom(StripOrdinals(ItemMatches(raw, 1, "numbered")), IsNonEmpty, 1)

BulletStage(raw) == SelectFrom(StripBullets(ItemMatches(raw, 1, "bullet")), IsNonEmpty, 1)

SentenceStage(raw) == SelectFrom(TrimAll(SplitSentences(raw, 1, 1)), IsLongSegment, 1)

SomeStageExtracts(raw) ==
    \/ Len(JsonStage(raw)) > 0
    \/ Len(ContextualStage(raw)) > 0
    \/ Len(NumberedStage(raw)) > 0
    \/ Len(BulletStage(raw)) > 0
    \/ Len(SentenceStage(raw)) > 0
    \/ Len(FromLines(raw)) > 0

\* raw is a text extractFirstCandidateText delivers: the trimmed text of a part
IsDelivered(raw) ==
    raw = extractFirstCandidateText(
              [has |-> TRUE, candidates |-> << << [isString |-> TRUE, text |-> raw] >> >>])

\* C16: the call ends in the empty-response error only when no stage (JSON,
\* contextual, numbered, bullet, sentence, line) extracts anything from the
\* response text: a text from which some stage extracts a question settles
\* with a list
C16_EmptyOnlyWhenNoStageExtracts ==
    (fnPc = "settled" /\ IsDelivered(fnRaw) /\ SomeStageExtracts(fnRaw))
        => fnResult.kind = "return"

\* the JSON stage gave nothing for a text with a JSON block, the sentence
\* stage extracts from it, and the call returned a list
C16_FellThroughToSentences ==
    /\ fnPc = "settled"
    /\ IsDelivered(fnRaw)
    /\ Len(extractJsonBlock(fnRaw)) > 0
    /\ Len(JsonStage(fnRaw)) = 0
    /\ Len(SentenceStage(fnRaw)) > 0
    /\ fnResult.kind = "return"

\* C17: a candidate whose question is empty once sanitized contributes no
\* record, in the JSON stage and in the text stages: no record of the
\* normalized list has the empty string as its question
C17_EmptyQuestionsDropped ==
    fnPc = "normalized" =>
        \A i \in 1..Len(fnCards) : fnCards[i].question # <<>>

\* C18: from a clear() to the next submit() the question list and the error
\* are empty: a call that was in flight when clear() ran does not put a list
\* or an error back when it settles
C18_ClearedStaysEmpty == cleared => questions = <<>> /\ error = Null

\* C19: whenever the call of a submission settles, with a list or with any
\* error, loading is set to false and an error is shown as a message of the
\* form; when every call settles, loading is eventually false after every
\* submit
C19_LoadingReleased ==
    /\ [][Completes => /\ ~loading'
                       /\ settled'.outcome \in Failures \cup {"returned"}
                       /\ settled'.outcome \in Failures => error' = API_ERROR_MESSAGE]_vars
    /\ loading ~> ~loading

\* the call of a submission has thrown on a body that is not JSON, no call
\* is in flight and loading is false
C19_ReleasedAfterThrow ==
    /\ settled.outcome = "bad-body"
    /\ Len(requests) = 0
    /\ ~loading
    /\ error = API_ERROR_MESSAGE

\* the response text names no type for any of its questions
NoTypeSupplied == ~Includes(fnRaw, <<"\"", "t", "y", "p", "e", "\"">>)

HasBehavioralPhrase(text) ==
    \E keyword \in BehavioralKeywords : Includes(toLowerCase(text), keyword)

\* C20: a record whose source supplies no type, from the text stages or from
\* a JSON object without a type, is 'behavioral' exactly when its question
\* contains one of the five phrases, whatever the case of its letters, and
\* is 'technical' otherwise
C20_TypeFollowsQuestion ==
    (fnPc = "normalized" /\ NoTypeSupplied) =>
        \A i \in 1..Len(fnCards) :
            /\ fnCards[i].type \in {"behavioral", "technical"}
            /\ fnCards[i].type = "behavioral" <=> HasBehavioralPhrase(fnCards[i].question)

\* the candidates normalizeQuestions hands to sanitizeQuestion: the elements
\* of the questions array of the JSON block of raw
Candidates(raw) ==
    LET parsed == JSONParse(extractJsonBlock(raw))
    IN  IF Len(extractJsonBlock(raw)) = 0 \/ ~parsed.ok THEN <<>>
        ELSE IF Prop(parsed.v, <<"q", "u", "e", "s", "t", "i", "o", "n", "s">>).t # "arr" THEN <<>>
        ELSE Prop(parsed.v, <<"q", "u", "e", "s", "t", "i", "o", "n", "s">>).v

\* C21: sanitizeQuestion never throws: for every candidate of the response,
\* whatever its optional fields are, it returns a record or undefined
C21_SanitizerNeverThrows ==
    fnPc = "normalized" =>
        \A i \in 1..Len(Candidates(fnRaw)) :
            sanitizeQuestion(Candidates(fnRaw)[i], FnExperience).kind \in {"card", "undefined"}

\* raw has a JSON block that does not parse, has no questions array, or has
\* one whose candidates give no record or make sanitizeQuestion throw
HasUnusableBlock(raw) ==
    /\ Len(extractJsonBlock(raw)) > 0
    /\ \/ \A i \in 1..Len(Candidates(raw)) :
              sanitizeQuestion(Candidates(raw)[i], FnExperience).kind # "card"
       \/ \E i \in 1..Len(Candidates(raw)) :
              sanitizeQuestion(Candidates(raw)[i], FnExperience).kind = "throw"

\* C22: when the response has a '{'...'}' block that does not parse or gives
\* no usable questions array, normalizeQuestions returns what the text
\* stages return for the same text, and the call fails only if that is empty
C22_MalformedJsonFallsBack ==
    /\ (fnPc \in {"normalized", "settled"} /\ HasUnusableBlock(fnRaw))
           => fnCards = fallbackCardsFromText(fnRaw, FnExperience)
    /\ (fnPc = "settled" /\ HasUnusableBlock(fnRaw) /\ fnResult.kind = "throw")
           => /\ fnResult.error = "empty-response"
              /\ Len(extractQuestionsFromText(fnRaw)) = 0

\* a response whose block does not parse has been normalized to the records
\* of the text stages
C22_FellBackOnSyntaxError ==
    /\ fnPc = "normalized"
    /\ Len(extractJsonBlock(fnRaw)) > 0
    /\ ~JSONParse(extractJsonBlock(fnRaw)).ok
    /\ Len(fnCards) > 0

\* no earlier stage gives anything for raw, so that the sentences are split
SentencesAreSplit(raw) ==
    /\ Len(trim(raw)) > 0
    /\ Len(JsonStage(raw)) = 0
    /\ Len(ContextualMatches(raw, toLowerCase(raw), 1)) = 0
    /\ Len(ItemMatches(raw, 1, "numbered")) = 0
    /\ Len(ItemMatches(raw, 1, "bullet")) = 0

IsExtracted(raw, segment) ==
    \E j \in 1..Len(extractQuestionsFromText(raw)) : extractQuestionsFromText(raw)[j] = segment

\* C23: in the sentence stage a segment that ends in '?' is kept whatever
\* its length (up to the five that are returned), and a segment that does
\* not end in '?' is kept only if it is longer than the threshold
C23_QuestionSegmentsKept ==
    (fnPc = "normalized" /\ SentencesAreSplit(fnRaw)) =>
        \A i \in 1..Len(TrimAll(SplitSentences(fnRaw, 1, 1))) :
            LET segment == TrimAll(SplitSentences(fnRaw, 1, 1))[i]
            IN  /\ EndsWithChar(segment, "?") =>
                       \/ IsExtracted(fnRaw, segment)
                       \/ Len(extractQuestionsFromText(fnRaw)) >= MaxQuestions
                /\ (~EndsWithChar(segment, "?") /\ IsExtracted(fnRaw, segment)) =>
                       Len(segment) > MinSegmentLength

Mentions(level, word) == Includes(toLowerCase(level), word)

\* the difficulty the claim derives from the experience level
DerivedDifficulty(level) ==
    IF Mentions(level, <<"j", "u", "n", "i", "o", "r">>) \/ Mentions(level, <<"e", "n", "t", "r", "y">>) THEN <<"J", "u", "n", "i", "o", "r">>
    ELSE IF Mentions(level, <<"s", "e", "n", "i", "o", "r">>) \/ Mentions(level, <<"l", "e", "a", "d">>) THEN <<"S", "e", "n", "i", "o", "r">>
    ELSE <<"M", "i", "d", "-", "L", "e", "v", "e", "l">>

\* the difficulty the i-th record of the response is supplied with, if the
\* records come from the JSON stage
SuppliedDifficulty(raw, i) ==
    IF i <= Len(Candidates(raw)) THEN Prop(Candidates(raw)[i], <<"d", "i", "f", "f", "i", "c", "u", "l", "t", "y">>)
    ELSE Undefined

\* C24: every record's difficulty is Junior, Mid-Level or Senior; a supplied
\* difficulty that is one of the three is kept, and any other record has the
\* difficulty derived from the experience level, whatever its case: Junior
\* for 'junior' or 'entry', Senior for 'senior' or 'lead', else Mid-Level
C24_DifficultyKeptOrDerived ==
    fnPc = "levelled" =>
        \A i \in 1..Len(fnCards) :
            LET supplied == SuppliedDifficulty(fnRaw, i)
            IN  /\ fnCards[i].difficulty \in { <<"J", "u", "n", "i", "o", "r">>, <<"M", "i", "d", "-", "L", "e", "v", "e", "l">>, <<"S", "e", "n", "i", "o", "r">> }
                /\ fnCards[i].difficulty =
                       IF IsString(supplied) /\ supplied.v \in { <<"J", "u", "n", "i", "o", "r">>, <<"M", "i", "d", "-", "L", "e", "v", "e", "l">>, <<"S", "e", "n", "i", "o", "r">> }
                       THEN supplied.v
                       ELSE DerivedDifficulty(fnInput.items[2])

\* for the level 'Tech Lead' the supplied Mid-Level of the first record is
\* kept and the third record, supplied with none, is Senior
C24_KeptAndDerived ==
    /\ fnPc = "levelled"
    /\ fnInput.items[2] = <<"T", "e", "c", "h", " ", "L", "e", "a", "d">>
    /\ Len(fnCards) = 3
    /\ fnCards[1].difficulty = <<"M", "i", "d", "-", "L", "e", "v", "e", "l">>
    /\ fnCards[2].difficulty = <<"S", "e", "n", "i", "o", "r">>
    /\ fnCards[3].difficulty = <<"S", "e", "n", "i", "o", "r">>

\* C25: the keywords of every record are a set under lowercase comparison,
\* whether they were supplied or derived from the question: no two entries
\* of a record's keywords are equal when lowercased
C25_KeywordsAreDistinct ==
    fnPc = "normalized" =>
        \A i \in 1..Len(fnCards) :
            \A a, b \in 1..Len(fnCards[i].keywords) :
                a # b => toLowerCase(fnCards[i].keywords[a]) # toLowerCase(fnCards[i].keywords[b])
====
